---- MODULE Spec2Model ----
(***************************************************************************)
(* A model of the dig container (sywhang/dig): Provide registers           *)
(* constructors in a dependency graph, Invoke resolves the arguments of a  *)
(* target function depth-first, calling each constructor at most once.     *)
(***************************************************************************)
EXTENDS Integers, Sequences, FiniteSets, TLC

(***************************************************************************)
(* Bounds of the model.                                                    *)
(***************************************************************************)
\* Provide and Invoke calls made on one container.
MaxCalls == 4
\* Depth of the call stack available to one resolution.
MaxDepth == 4
\* Nodes and edges of the graphs the cycle check is run on.
MaxNodes == 4
MaxEdges == 4
\* Scopes of a tree, and Provide and Invoke calls made on them.
MaxScopes == 4
MaxScopeCalls == 2
\* Calls of constructors whose commit is followed write by write.
MaxCommitCalls == 3

(***************************************************************************)
(* Maps (Go maps: a key is present or absent).                             *)
(***************************************************************************)
EmptyMap == [x \in {} |-> 0]

Get(m, k, d) == IF k \in DOMAIN m THEN m[k] ELSE d

Put(m, k, v) == [x \in (DOMAIN m) \cup {k} |-> IF x = k THEN v ELSE m[x]]

Range(s) == {s[i] : i \in 1..Len(s)}

(***************************************************************************)
(* Keys and values.                                                        *)
(***************************************************************************)
\* key{t, name, group}
Key(t, name, group) == [t |-> t, name |-> name, group |-> group]

\* The element type of a slice type.
Elem(t) == IF t = "[]int" THEN "int" ELSE t

\* reflect.Zero(t)
Zero == <<"zero", 0, 0>>

\* _noValue, the invalid reflect.Value
NoValue == <<"invalid", 0, 0>>

\* The i-th result of the g-th execution of constructor n.
Made(n, i, g) == <<n, i, g>>

(***************************************************************************)
(* Functions the client passes to Provide and Invoke, as the parsed shape  *)
(* of their signature: ins are parameter slots, outs are result slots.     *)
(***************************************************************************)
In1(t) == [kind |-> "single", t |-> t, name |-> "", optional |-> FALSE,
           group |-> "", fields |-> <<>>]

Fld(t, name, optional) == [kind |-> "single", t |-> t, name |-> name,
                           optional |-> optional, group |-> "", fields |-> <<>>]

GrpFld(t, group) == [kind |-> "single", t |-> t, name |-> "", optional |-> FALSE,
                     group |-> group, fields |-> <<>>]

InObj(fields) == [kind |-> "object", t |-> "In", name |-> "", optional |-> FALSE,
                  group |-> "", fields |-> fields]

BadIn == [kind |-> "bad", t |-> "*In", name |-> "", optional |-> FALSE,
          group |-> "", fields |-> <<>>]

Out1(t) == [kind |-> "value", t |-> t, name |-> "", group |-> ""]

OutGrp(t, group) == [kind |-> "value", t |-> t, name |-> "", group |-> group]

OutErr == [kind |-> "error", t |-> "error", name |-> "", group |-> ""]

NoOpts == [Name |-> "", Group |-> "", As |-> <<>>]

Fn(ctype, ins, outs, opts) ==
    [kind |-> "func", ctype |-> ctype, ins |-> ins, outs |-> outs, opts |-> opts]

Ctors ==
    [NewA     |-> Fn("func() A", <<>>, <<Out1("A")>>, NoOpts),
     NewB     |-> Fn("func(A) B", <<In1("A")>>, <<Out1("B")>>, NoOpts),
     NewC     |-> Fn("func(B) C", <<In1("B")>>, <<Out1("C")>>, NoOpts),
     NewX     |-> Fn("func(Y) X", <<In1("Y")>>, <<Out1("X")>>, NoOpts),
     NewY     |-> Fn("func(X) Y", <<In1("X")>>, <<Out1("Y")>>, NoOpts),
     NewA2    |-> Fn("func() A", <<>>, <<Out1("A")>>, NoOpts),
     NewAA    |-> Fn("func() (A, A)", <<>>, <<Out1("A"), Out1("A")>>, NoOpts),
     NewG7    |-> Fn("func() int", <<>>, <<Out1("int")>>,
                     [Name |-> "", Group |-> "g", As |-> <<>>]),
     NewG8    |-> Fn("func() int", <<>>, <<Out1("int")>>,
                     [Name |-> "", Group |-> "g", As |-> <<>>]),
     NewGErr  |-> Fn("func() (int, error)", <<>>, <<Out1("int"), OutErr>>,
                     [Name |-> "", Group |-> "g", As |-> <<>>]),
     NewS     |-> Fn("func(InG) S", <<InObj(<<GrpFld("[]int", "g")>>)>>,
                     <<Out1("S")>>, NoOpts),
     NewGS    |-> Fn("func(InG) int", <<InObj(<<GrpFld("[]int", "g")>>)>>,
                     <<Out1("int")>>, [Name |-> "", Group |-> "g", As |-> <<>>]),
     NewBar   |-> Fn("func(OptionalFoo) Bar",
                     <<InObj(<<Fld("Foo", "", TRUE)>>)>>, <<Out1("Bar")>>, NoOpts),
     NewErr   |-> Fn("func() (Z, error)", <<>>, <<Out1("Z"), OutErr>>, NoOpts),
     NewPair  |-> Fn("func() (P, Q, error)", <<>>, <<Out1("P"), Out1("Q"), OutErr>>, NoOpts),
     NewMulti |-> Fn("func() (OutMG, error)", <<>>,
                     <<Out1("M"), OutGrp("int", "g"), OutErr>>, NoOpts),
     OnlyErr  |-> Fn("func() error", <<>>, <<OutErr>>, NoOpts),
     BadSig   |-> Fn("func(InG, *In) A", <<InObj(<<GrpFld("[]int", "g")>>), BadIn>>,
                     <<Out1("A")>>, NoOpts),
     BadOpts  |-> Fn("func() A", <<>>, <<Out1("A")>>,
                     [Name |-> "n", Group |-> "g", As |-> <<>>]),
     Nil      |-> [kind |-> "nil", ctype |-> "nil", ins |-> <<>>, outs |-> <<>>,
                   opts |-> NoOpts],
     NotFunc  |-> [kind |-> "value", ctype |-> "int", ins |-> <<>>, outs |-> <<>>,
                   opts |-> NoOpts]]

CtorIds == DOMAIN Ctors

Targets ==
    [UseB    |-> Fn("func(B)", <<In1("B")>>, <<>>, NoOpts),
     UseA    |-> Fn("func(A) error", <<In1("A")>>, <<OutErr>>, NoOpts),
     UseX    |-> Fn("func(X)", <<In1("X")>>, <<>>, NoOpts),
     UseG    |-> Fn("func(InG)", <<InObj(<<GrpFld("[]int", "g")>>)>>, <<>>, NoOpts),
     UseS    |-> Fn("func(S) int", <<In1("S")>>, <<Out1("int")>>, NoOpts),
     UseBar  |-> Fn("func(Bar)", <<In1("Bar")>>, <<>>, NoOpts),
     UseOptA |-> Fn("func(OptionalA)", <<InObj(<<Fld("A", "", TRUE)>>)>>, <<>>, NoOpts),
     UseOptB |-> Fn("func(OptionalB)", <<InObj(<<Fld("B", "", TRUE)>>)>>, <<>>, NoOpts),
     UseOptC |-> Fn("func(OptionalC)", <<InObj(<<Fld("C", "", TRUE)>>)>>, <<>>, NoOpts),
     UseOptZ |-> Fn("func(OptionalZ)", <<InObj(<<Fld("Z", "", TRUE)>>)>>, <<>>, NoOpts),
     UseZ    |-> Fn("func(Z)", <<In1("Z")>>, <<>>, NoOpts),
     UseMG   |-> Fn("func(InMG)", <<InObj(<<Fld("M", "", FALSE), GrpFld("[]int", "g")>>)>>,
                    <<>>, NoOpts),
     UseAZ   |-> Fn("func(A, Z)", <<In1("A"), In1("Z")>>, <<>>, NoOpts)]

TargetIds == DOMAIN Targets

(***************************************************************************)
(* provideOptions.Validate                                                 *)
(***************************************************************************)
\* The names that contain a backquote (strings.ContainsRune(name, 0x60)).
BackquoteNames == {"back-quoted"}

\* A Validate that lets a name pass together with a group.
ValidateNamedGroups(o) ==
    IF o.Group # "" /\ Len(o.As) > 0 THEN "errOptions"
    ELSE IF o.Name \in BackquoteNames THEN "errOptions"
    ELSE IF o.Group \in BackquoteNames THEN "errOptions"
    ELSE IF \E i \in 1..Len(o.As) : o.As[i].kind # "ptrInterface" THEN "errOptions"
    ELSE "nil"

\* The error of provideOptions.Validate, "nil" when the options are valid.
Validate(o) ==
    IF o.Group # "" /\ o.Name # "" THEN "errOptions"
    ELSE IF o.Group # "" /\ Len(o.As) > 0 THEN "errOptions"
    ELSE IF o.Name \in BackquoteNames THEN "errOptions"
    ELSE IF o.Group \in BackquoteNames THEN "errOptions"
    ELSE IF \E i \in 1..Len(o.As) : o.As[i].kind # "ptrInterface" THEN "errOptions"
    ELSE "nil"

(***************************************************************************)
(* The graph holder: the node list and the order map of the dependency     *)
(* graph.  Node indices start at 0.                                        *)
(***************************************************************************)
NewGraphHolder == [nodes |-> <<>>, orders |-> EmptyMap]

\* Appends a node and records its index under key k.
NewNode(gh, k, wrapped) ==
    [nodes |-> Append(gh.nodes, wrapped), orders |-> Put(gh.orders, k, Len(gh.nodes))]

Lookup(gh, i) == gh.nodes[i + 1]

Snapshot(gh) == [nodes |-> gh.nodes, orders |-> gh.orders]

Rollback(gh, snap) == [gh EXCEPT !.nodes = snap.nodes, !.orders = snap.orders]

CtorPayload(id) == [kind |-> "ctor", id |-> id, Group |-> "", Type |-> ""]

GroupPayload(pg) == [kind |-> "group", id |-> "", Group |-> pg.Group, Type |-> pg.Type]

(***************************************************************************)
(* Parameter descriptors.                                                  *)
(***************************************************************************)
ParamSingle(t, name, optional) ==
    [kind |-> "single", Type |-> t, Name |-> name, Optional |-> optional,
     Group |-> "", Fields |-> <<>>]

ParamGroupedSlice(t, group) ==
    [kind |-> "group", Type |-> t, Name |-> "", Optional |-> FALSE,
     Group |-> group, Fields |-> <<>>]

ParamObject(t, fields) ==
    [kind |-> "object", Type |-> t, Name |-> "", Optional |-> FALSE,
     Group |-> "", Fields |-> fields]

IsSlice(t) == t \in {"[]int"}

\* newParamGroupedSlice: the parameter, and its own node added to the graph.
newParamGroupedSlice(f, gh) ==
    LET pg == ParamGroupedSlice(f.t, f.group) IN
    IF ~IsSlice(f.t) \/ f.name # "" \/ f.optional
    THEN [err |-> "errParam", p |-> pg, gh |-> gh]
    ELSE [err |-> "nil", p |-> pg,
          gh |-> NewNode(gh, Key(f.t, "", f.group), GroupPayload(pg))]

RECURSIVE newParam(_, _), newParamObjectFields(_, _, _, _)

\* newParamObjectField: r is the parameter built for field f; a single
\* parameter takes its name and its optional flag from the field's tags.
newParamObjectField(f, r) ==
    IF r.err = "nil" /\ r.p.kind = "single"
    THEN [r EXCEPT !.p = ParamSingle(r.p.Type, f.name, f.optional)]
    ELSE r

\* One turn of the loop of newParamObject, r being the i-th field's result.
newParamObjectNext(fs, i, acc, r) ==
    IF r.err # "nil" THEN [err |-> r.err, fields |-> acc, gh |-> r.gh]
    ELSE newParamObjectFields(fs, i + 1, Append(acc, r.p), r.gh)

\* The loop of newParamObject over the fields from the i-th on; acc holds
\* the fields built so far.
newParamObjectFields(fs, i, acc, gh) ==
    IF i > Len(fs) THEN [err |-> "nil", fields |-> acc, gh |-> gh]
    ELSE newParamObjectNext(fs, i, acc,
             newParamObjectField(fs[i],
                 IF fs[i].group # "" THEN newParamGroupedSlice(fs[i], gh)
                 ELSE newParam(fs[i], gh)))

\* newParamObject, r being the result of the loop over the fields.
newParamObject(slot, r) == [err |-> r.err, p |-> ParamObject(slot.t, r.fields), gh |-> r.gh]

\* newParam
newParam(slot, gh) ==
    IF slot.kind = "bad"
    THEN [err |-> "errParam", p |-> ParamSingle(slot.t, "", FALSE), gh |-> gh]
    ELSE IF slot.kind = "object"
    THEN newParamObject(slot, newParamObjectFields(slot.fields, 1, <<>>, gh))
    ELSE [err |-> "nil", p |-> ParamSingle(slot.t, "", FALSE), gh |-> gh]

RECURSIVE newParamListFrom(_, _, _, _)

\* One turn of the loop of newParamList, r being the i-th parameter's result.
newParamListNext(ins, i, acc, r) ==
    IF r.err # "nil" THEN [err |-> r.err, Params |-> acc, gh |-> r.gh]
    ELSE newParamListFrom(ins, i + 1, Append(acc, r.p), r.gh)

newParamListFrom(ins, i, acc, gh) ==
    IF i > Len(ins) THEN [err |-> "nil", Params |-> acc, gh |-> gh]
    ELSE newParamListNext(ins, i, acc, newParam(ins[i], gh))

\* newParamList: the parameters of a function, in order.
newParamList(fn, gh) == newParamListFrom(fn.ins, 1, <<>>, gh)

(***************************************************************************)
(* Result descriptors.                                                     *)
(***************************************************************************)
\* newResultList: one result per non-error output; the options rename or
\* regroup the outputs that carry no name or group of their own.
newResult(o, opts) ==
    IF o.group # "" THEN [kind |-> "grouped", Type |-> o.t, Name |-> "", Group |-> o.group,
                          As |-> <<>>]
    ELSE IF o.name # "" THEN [kind |-> "single", Type |-> o.t, Name |-> o.name,
                              Group |-> "", As |-> <<>>]
    ELSE IF opts.Group # "" THEN [kind |-> "grouped", Type |-> o.t, Name |-> "",
                                  Group |-> opts.Group, As |-> <<>>]
    ELSE [kind |-> "single", Type |-> o.t, Name |-> opts.Name, Group |-> "",
          As |-> [i \in 1..Len(opts.As) |-> opts.As[i].t]]

RECURSIVE newResultsFrom(_, _, _, _)

newResultsFrom(outs, i, opts, acc) ==
    IF i > Len(outs) THEN [err |-> "nil", Results |-> acc]
    ELSE IF outs[i].kind = "error" THEN newResultsFrom(outs, i + 1, opts, acc)
    ELSE IF outs[i].kind = "bad" THEN [err |-> "errResult", Results |-> acc]
    ELSE newResultsFrom(outs, i + 1, opts, Append(acc, newResult(outs[i], opts)))

newResultList(fn, opts) == newResultsFrom(fn.outs, 1, opts, <<>>)

\* The key a result is stored under.
ResultKey(r) ==
    IF r.kind = "grouped" THEN Key(r.Type, "", r.Group) ELSE Key(r.Type, r.Name, "")

\* The parameter and result lists of a registered constructor.
ParamsOf(id) == newParamList(Ctors[id], NewGraphHolder).Params

ResultsOf(id) == newResultList(Ctors[id], Ctors[id].opts).Results

\* Whether the function has an error result it may use to report failure.
ReturnsError(fn) == \E i \in 1..Len(fn.outs) : fn.outs[i].kind = "error"

(***************************************************************************)
(* The container store.  A container c is the record of the Container's    *)
(* fields; node identities are the names of the registered constructors.   *)
(***************************************************************************)
\* Container.getProviders: a missing key and a nil list read alike.
getProviders(c, k) == Get(c.providers, k, <<>>)

getValueProviders(c, name, t) == getProviders(c, Key(t, name, ""))

getGroupProviders(c, name, t) == getProviders(c, Key(t, "", name))

\* Container.knownTypes: the types of the keys present in the providers map.
knownTypes(c) == {k.t : k \in DOMAIN c.providers}

RECURSIVE Flatten(_)

Flatten(ss) == IF Len(ss) = 0 THEN <<>> ELSE Head(ss) \o Flatten(Tail(ss))

(***************************************************************************)
(* The edges of the dependency graph, derived from the descriptors.        *)
(***************************************************************************)
\* The graph index recorded for constructor id (keyed by its function type).
OrderOf(gh, id) == Get(gh.orders, Key(Ctors[id].ctype, "", ""), 0)

\* The graph indices of the providers ps.
OrdersOf(gh, ps) == [i \in 1..Len(ps) |-> OrderOf(gh, ps[i])]

RECURSIVE getParamOrder(_, _)

\* A getParamOrder that has no edge for a single parameter.
getParamOrderOfGroups(c, p) ==
    IF p.kind = "single" THEN <<>>
    ELSE IF p.kind = "group" THEN <<Get(c.gh.orders, Key(p.Type, "", p.Group), 0)>>
    ELSE Flatten([i \in 1..Len(p.Fields) |-> getParamOrder(c, p.Fields[i])])

getParamOrder(c, p) ==
    IF p.kind = "single" THEN OrdersOf(c.gh, getValueProviders(c, p.Name, p.Type))
    ELSE IF p.kind = "group" THEN <<Get(c.gh.orders, Key(p.Type, "", p.Group), 0)>>
    ELSE Flatten([i \in 1..Len(p.Fields) |-> getParamOrder(c, p.Fields[i])])

\* The graph indices that the parameters ps require.
ParamOrders(c, ps) == Flatten([i \in 1..Len(ps) |-> getParamOrder(c, ps[i])])

\* The nodes that the node with payload w requires.
EdgesOf(c, w) ==
    IF w.kind = "ctor" THEN ParamOrders(c, ParamsOf(w.id))
    ELSE OrdersOf(c.gh, getGroupProviders(c, w.Group, Elem(w.Type)))

\* graphHolder.EdgesFrom: the indices of the nodes that node u requires.
EdgesFrom(c, u) == EdgesOf(c, Lookup(c.gh, u))

\* The graph the cycle check sees: Count() and EdgesFrom(i) for each node.
GraphOf(c) ==
    [count |-> Len(c.gh.nodes),
     edges |-> [i \in 1..Len(c.gh.nodes) |-> EdgesFrom(c, i - 1)]]

(***************************************************************************)
(* Cycle detection (package graph).                                        *)
(***************************************************************************)
NewCycleDetectInfo == [visited |-> {}, onStack |-> EmptyMap, backtrack |-> EmptyMap]

RECURSIVE isAcyclic(_, _, _), isAcyclicFrom(_, _, _, _)

\* After the recursive call for the i-th neighbor of n returned r.
isAcyclicAfter(g, n, i, r) == IF ~r.ok THEN r ELSE isAcyclicFrom(g, n, i + 1, r.info)

\* A loop body of isAcyclic that goes on to the next neighbor after it
\* found a neighbor on the stack.
isAcyclicVisitContinuing(g, n, i, neighbor, info) ==
    IF neighbor \notin info.visited
    THEN isAcyclicAfter(g, n, i, isAcyclic(g, neighbor, info))
    ELSE IF Get(info.onStack, neighbor, FALSE)
    THEN [isAcyclicFrom(g, n, i + 1, info) EXCEPT !.ok = FALSE]
    ELSE isAcyclicFrom(g, n, i + 1, info)

\* The body of the loop of isAcyclic, for the i-th neighbor of n.
isAcyclicVisit(g, n, i, neighbor, info) ==
    IF neighbor \notin info.visited
    THEN isAcyclicAfter(g, n, i, isAcyclic(g, neighbor, info))
    ELSE IF Get(info.onStack, neighbor, FALSE) THEN [ok |-> FALSE, info |-> info]
    ELSE isAcyclicFrom(g, n, i + 1, info)

\* The loop of isAcyclic over the neighbors of n, from the i-th on.
isAcyclicFrom(g, n, i, info) ==
    IF i > Len(g.edges[n + 1]) THEN [ok |-> TRUE, info |-> info]
    ELSE isAcyclicVisit(g, n, i, g.edges[n + 1][i],
             [info EXCEPT !.backtrack = Put(@, g.edges[n + 1][i], n)])

\* An isAcyclic end that leaves the node on the stack.
isAcyclicDoneOnStack(n, r) == r

\* The end of isAcyclic, r being the result of the loop over the neighbors.
isAcyclicDone(n, r) ==
    IF r.ok THEN [ok |-> TRUE, info |-> [r.info EXCEPT !.onStack = Put(@, n, FALSE)]]
    ELSE r

isAcyclic(g, n, info) ==
    isAcyclicDone(n, isAcyclicFrom(g, n, 1,
        [info EXCEPT !.visited = @ \cup {n}, !.onStack = Put(@, n, TRUE)]))

\* VerifyAcyclic(g, n): no cycle is found by the traversal that starts at n.
VerifyAcyclic(g, n) == isAcyclic(g, n, NewCycleDetectInfo)

RECURSIVE getCyclePathFrom(_, _, _, _, _)
\* The loop of getCyclePath: curr is put in front of path until it is start.
\* A key that bt does not hold reads as 0. The loop ends within as many
\* rounds as bt has keys, or never: the path is then marked with -1.
getCyclePathFrom(start, bt, curr, path, rounds) ==
    IF curr = start THEN path
    ELSE IF rounds = 0 THEN <<0 - 1>> \o path
    ELSE getCyclePathFrom(start, bt, Get(bt, curr, 0), <<curr>> \o path, rounds - 1)

\* getCyclePath(start, bt): ok is read once, for bt[start].
getCyclePath(start, bt) ==
    <<start>> \o (IF start \in DOMAIN bt
                  THEN getCyclePathFrom(start, bt, bt[start], <<start>>,
                                        Cardinality(DOMAIN bt) + 1)
                  ELSE <<start>>)

\* The node list VerifyAcyclic(g, n) returns beside ok.
VerifyAcyclicCycle(g, n) == getCyclePath(n, isAcyclic(g, n, NewCycleDetectInfo).info.backtrack)

\* IsAcyclic(g): the check of the whole graph, a traversal from every node.
IsAcyclic(g) == \A n \in 0..(g.count - 1) : VerifyAcyclic(g, n).ok

RECURSIVE hasCycleHelp(_, _, _), hasCycleFrom(_, _, _, _)

\* After the recursive call for the i-th neighbor of n returned r.
hasCycleAfter(g, n, i, r) == IF r.hc THEN r ELSE hasCycleFrom(g, n, i + 1, r.st)

\* The body of the loop of hasCycleHelp, for the i-th neighbor of n.
hasCycleVisit(g, n, i, neighbor, st) ==
    IF neighbor \notin st.visited
    THEN hasCycleAfter(g, n, i, hasCycleHelp(g, neighbor, st))
    ELSE IF Get(st.onStack, neighbor, FALSE) THEN [hc |-> TRUE, st |-> st]
    ELSE hasCycleFrom(g, n, i + 1, st)

\* The loop of hasCycleHelp over the neighbors of n, from the i-th on.
hasCycleFrom(g, n, i, st) ==
    IF i > Len(g.edges[n + 1]) THEN [hc |-> FALSE, st |-> st]
    ELSE hasCycleVisit(g, n, i, g.edges[n + 1][i], st)

\* The end of hasCycleHelp, r being the result of the loop.
hasCycleDone(n, r) ==
    IF r.hc THEN r ELSE [hc |-> FALSE, st |-> [r.st EXCEPT !.onStack = Put(@, n, FALSE)]]

hasCycleHelp(g, n, st) ==
    hasCycleDone(n, hasCycleFrom(g, n, 1,
        [st EXCEPT !.visited = @ \cup {n}, !.onStack = Put(@, n, TRUE)]))

\* HasCycle(g, n): the traversal that starts at n finds a cycle.
HasCycle(g, n) == hasCycleHelp(g, n, [visited |-> {}, onStack |-> EmptyMap])

RECURSIVE IsAcyclicCycleFrom(_, _)
\* The node list IsAcyclic(g) returns beside ok: that of the first node, from
\* the n-th on, whose traversal finds a cycle.
IsAcyclicCycleFrom(g, n) ==
    IF n >= g.count THEN <<>>
    ELSE IF ~VerifyAcyclic(g, n).ok THEN VerifyAcyclicCycle(g, n)
    ELSE IsAcyclicCycleFrom(g, n + 1)

IsAcyclicCycle(g) == IsAcyclicCycleFrom(g, 0)

(***************************************************************************)
(* Provide                                                                 *)
(***************************************************************************)
\* A checkKey that accepts a key that already has a provider.
checkKeyOwnOnly(c, keyPaths, k) ==
    [err |-> IF k \in keyPaths THEN "errDuplicate" ELSE "nil",
     keyPaths |-> keyPaths \cup {k}]

\* connectionVisitor.checkKey: k conflicts with a key of the same constructor
\* or with a key that already has a provider; k is recorded either way.
checkKey(c, keyPaths, k) ==
    [err |-> IF k \in keyPaths THEN "errDuplicate"
             ELSE IF Len(getProviders(c, k)) > 0 THEN "errDuplicate"
             ELSE "nil",
     keyPaths |-> keyPaths \cup {k}]

RECURSIVE checkAs(_, _, _, _)

\* The loop of Visit over the As types of a single result, from the i-th
\* on; ck is the result of the check before.
checkAs(c, r, i, ck) ==
    IF ck.err # "nil" \/ i > Len(r.As) THEN ck
    ELSE checkAs(c, r, i + 1, checkKey(c, ck.keyPaths, Key(r.As[i], r.Name, "")))

\* connectionVisitor.Visit
Visit(c, keyPaths, r) ==
    IF r.kind = "single"
    THEN checkAs(c, r, 1, checkKey(c, keyPaths, Key(r.Type, r.Name, "")))
    ELSE [err |-> "nil", keyPaths |-> keyPaths \cup {Key(r.Type, "", r.Group)}]

RECURSIVE walkResult(_, _, _, _)

\* walkResult with the connectionVisitor: stops at the first error.
walkResult(c, rs, i, v) ==
    IF v.err # "nil" \/ i > Len(rs) THEN v
    ELSE walkResult(c, rs, i + 1, Visit(c, v.keyPaths, rs[i]))

\* The keys found by the walk w, none if it failed.
validatedKeys(w) == [err |-> w.err, keys |-> IF w.err = "nil" THEN w.keyPaths ELSE {}]

\* Container.findAndValidateResults: the keys the constructor provides.
findAndValidateResults(c, rs) ==
    validatedKeys(walkResult(c, rs, 1, [err |-> "nil", keyPaths |-> {}]))

\* The providers map with node n appended under every key of keys.
AddProviders(provs, keys, n) ==
    [k \in (DOMAIN provs) \cup keys |->
        IF k \in keys THEN Append(Get(provs, k, <<>>), n) ELSE provs[k]]

\* The providers map with the lists of oldProviders put back.
RestoreProviders(provs, oldProviders) ==
    [k \in (DOMAIN provs) \cup (DOMAIN oldProviders) |->
        IF k \in DOMAIN oldProviders THEN oldProviders[k] ELSE provs[k]]

\* A deferred function that keeps the graph as the failed call left it.
provideReturnKeeping(c, snap, err) == [c |-> c, err |-> err]

\* The deferred function of provide: roll the graph back on an error.
provideReturn(c, snap, err) ==
    [c |-> IF err # "nil" THEN [c EXCEPT !.gh = Rollback(@, snap)] ELSE c, err |-> err]

\* A provide that marks the graph verified without checking it.
provideVerifyTrusting(c, id, oldProviders) ==
    [c |-> [c EXCEPT !.isVerifiedAcyclic = TRUE, !.nodes = Append(@, id)], err |-> "nil"]

\* A provide that checks for cycles whatever deferAcyclicVerification says.
provideVerifyAlways(c, id, oldProviders) ==
    IF ~IsAcyclic(GraphOf(c))
    THEN [c |-> [c EXCEPT !.providers = RestoreProviders(@, oldProviders)],
          err |-> "errCycle"]
    ELSE [c |-> [c EXCEPT !.isVerifiedAcyclic = TRUE, !.nodes = Append(@, id)],
          err |-> "nil"]

\* provide, from the cycle check on: c has the node registered under keys,
\* oldProviders holds the lists these keys had before.
provideVerify(c, id, oldProviders) ==
    IF c.deferAcyclicVerification
    THEN [c |-> [c EXCEPT !.nodes = Append(@, id)], err |-> "nil"]
    ELSE IF ~IsAcyclic(GraphOf(c))
    THEN [c |-> [c EXCEPT !.providers = RestoreProviders(@, oldProviders)],
          err |-> "errCycle"]
    ELSE [c |-> [c EXCEPT !.isVerifiedAcyclic = TRUE, !.nodes = Append(@, id)],
          err |-> "nil"]

\* A provide that leaves isVerifiedAcyclic as it is when it registers the
\* node under its keys.
provideKeysKeeping(c, id, fr) ==
    IF fr.err # "nil" THEN [c |-> c, err |-> fr.err]
    ELSE IF fr.keys = {} THEN [c |-> c, err |-> "errNoResult"]
    ELSE provideVerify([c EXCEPT !.providers = AddProviders(@, fr.keys, id)],
                       id, [k \in fr.keys |-> getProviders(c, k)])

\* provide, from the validation of the results on: c has the node in its
\* graph, fr is the result of findAndValidateResults.
provideKeys(c, id, fr) ==
    IF fr.err # "nil" THEN [c |-> c, err |-> fr.err]
    ELSE IF fr.keys = {} THEN [c |-> c, err |-> "errNoResult"]
    ELSE provideVerify([c EXCEPT !.providers = AddProviders(@, fr.keys, id),
                                 !.isVerifiedAcyclic = FALSE],
                       id, [k \in fr.keys |-> getProviders(c, k)])

\* newConstructorNode: pl and rl are the parsed parameters and results; the
\* node is added to the graph under the key of its function type.
newConstructorNode(c, id, pl, rl) ==
    IF pl.err # "nil" THEN [c |-> [c EXCEPT !.gh = pl.gh], err |-> pl.err]
    ELSE IF rl.err # "nil" THEN [c |-> [c EXCEPT !.gh = pl.gh], err |-> rl.err]
    ELSE [c |-> [c EXCEPT !.gh = NewNode(pl.gh, Key(Ctors[id].ctype, "", ""),
                                        CtorPayload(id))],
          err |-> "nil"]

\* provide, after newConstructorNode returned r.
provideNode(id, r) ==
    IF r.err # "nil" THEN r
    ELSE provideKeys(r.c, id, findAndValidateResults(r.c, ResultsOf(id)))

\* The result r of the body of provide, through the deferred function.
provideDeferred(snap, r) == provideReturn(r.c, snap, r.err)

\* Container.provide: the container after the call, and the error returned.
provide(c, id) ==
    provideDeferred(Snapshot(c.gh),
        provideNode(id, newConstructorNode(c, id, newParamList(Ctors[id], c.gh),
                                           newResultList(Ctors[id], Ctors[id].opts))))

\* Container.Provide
ProvideCall(c, id) ==
    IF Ctors[id].kind = "nil" THEN [c |-> c, err |-> "errNil"]
    ELSE IF Ctors[id].kind # "func" THEN [c |-> c, err |-> "errNotFunc"]
    ELSE IF Validate(Ctors[id].opts) # "nil" THEN [c |-> c, err |-> "errOptions"]
    ELSE provide(c, id)

(***************************************************************************)
(* The store: values and groups.                                           *)
(***************************************************************************)
\* The permutation of 1..n that the random source rnd yields (rand.Perm(n));
\* rnd is a permutation of 1..m, and the indices above m keep their place.
Perm(rnd, n) ==
    SelectSeq(rnd, LAMBDA x : x <= n)
        \o [i \in 1..(IF n > Len(rnd) THEN n - Len(rnd) ELSE 0) |-> Len(rnd) + i]

\* A shuffledCopy that fills every place from the first item.
shuffledCopyOfFirst(rnd, items) == [i \in 1..Len(items) |-> items[1]]

\* shuffledCopy
shuffledCopy(rnd, items) ==
    LET pm == Perm(rnd, Len(items)) IN [i \in 1..Len(items) |-> items[pm[i]]]

\* Container.getValue: the value, or NoValue when there is none.
getValue(c, name, t) == Get(c.values, Key(t, name, ""), NoValue)

hasValue(c, name, t) == Key(t, name, "") \in DOMAIN c.values

\* Container.setValue
setValue(c, name, t, v) == [c EXCEPT !.values = Put(@, Key(t, name, ""), v)]

\* Container.getValueGroup
getValueGroup(c, rnd, name, t) == shuffledCopy(rnd, Get(c.groups, Key(t, "", name), <<>>))

\* A submitGroupedValue that replaces the group by the new value.
submitGroupedValueReplacing(c, name, t, v) ==
    [c EXCEPT !.groups = Put(@, Key(t, "", name), <<v>>)]

\* Container.submitGroupedValue
submitGroupedValue(c, name, t, v) ==
    [c EXCEPT !.groups = Put(@, Key(t, "", name), Append(Get(@, Key(t, "", name), <<>>), v))]

(***************************************************************************)
(* The staging writer.                                                     *)
(***************************************************************************)
newStagingContainerWriter == [values |-> EmptyMap, groups |-> EmptyMap]

RECURSIVE stageAs(_, _, _, _)

stageAs(sr, r, v, i) ==
    IF i > Len(r.As) THEN sr
    ELSE stageAs([sr EXCEPT !.values = Put(@, Key(r.As[i], r.Name, ""), v)], r, v, i + 1)

\* result.Extract into the staging writer
Extract(sr, r, v) ==
    IF r.kind = "single"
    THEN stageAs([sr EXCEPT !.values = Put(@, Key(r.Type, r.Name, ""), v)], r, v, 1)
    ELSE [sr EXCEPT !.groups =
              Put(@, Key(r.Type, "", r.Group), Append(Get(@, Key(r.Type, "", r.Group), <<>>), v))]

RECURSIVE ExtractFrom(_, _, _, _, _, _)

\* resultList.ExtractList over the returned values, from the i-th on; j is
\* the index of the next result descriptor.
ExtractFrom(sr, outs, rs, results, i, j) ==
    IF i > Len(results) THEN [err |-> "nil", sr |-> sr]
    ELSE IF outs[i].kind = "error"
    THEN IF results[i] = "error" THEN [err |-> "error", sr |-> sr]
         ELSE ExtractFrom(sr, outs, rs, results, i + 1, j)
    ELSE ExtractFrom(Extract(sr, rs[j], results[i]), outs, rs, results, i + 1, j + 1)

ExtractList(sr, id, results) == ExtractFrom(sr, Ctors[id].outs, ResultsOf(id), results, 1, 1)

RECURSIVE commitGroup(_, _, _, _)

commitGroup(c, k, vs, i) ==
    IF i > Len(vs) THEN c
    ELSE commitGroup(submitGroupedValue(c, k.group, k.t, vs[i]), k, vs, i + 1)

RECURSIVE commitGroups(_, _, _)

commitGroups(c, sr, ks) ==
    IF ks = {} THEN c
    ELSE LET k == CHOOSE x \in ks : TRUE
         IN commitGroups(commitGroup(c, k, sr.groups[k], 1), sr, ks \ {k})

RECURSIVE commitValues(_, _, _)

commitValues(c, sr, ks) ==
    IF ks = {} THEN c
    ELSE LET k == CHOOSE x \in ks : TRUE
         IN commitValues(setValue(c, k.name, k.t, sr.values[k]), sr, ks \ {k})

\* A Commit that leaves the staged values out.
CommitGroupsOnly(sr, c) == commitGroups(c, sr, DOMAIN sr.groups)

\* stagingContainerWriter.Commit
Commit(sr, c) == commitGroups(commitValues(c, sr, DOMAIN sr.values), sr, DOMAIN sr.groups)

(***************************************************************************)
(* Resolution.  env is what one Invoke does not decide: env.fail, the      *)
(* constructors whose function returns a non-nil error, and env.rnd, the   *)
(* random source.  depth is the call stack left.                           *)
(***************************************************************************)
RECURSIVE findMissingDependencies(_, _)

\* A findMissingDependencies that does not look at the Optional flag.
findMissingDependenciesStrict(c, params) ==
    Flatten([i \in 1..Len(params) |->
        LET p == params[i] IN
        IF p.kind = "single"
        THEN IF Len(getValueProviders(c, p.Name, p.Type)) = 0 THEN <<p>> ELSE <<>>
        ELSE IF p.kind = "object"
        THEN Flatten([j \in 1..Len(p.Fields) |-> findMissingDependencies(c, <<p.Fields[j]>>)])
        ELSE <<>>])

\* A findMissingDependencies that takes a group without provider for
\* missing.
findMissingDependenciesOfGroups(c, params) ==
    Flatten([i \in 1..Len(params) |->
        LET p == params[i] IN
        IF p.kind = "single"
        THEN IF Len(getValueProviders(c, p.Name, p.Type)) = 0 /\ ~p.Optional
             THEN <<p>> ELSE <<>>
        ELSE IF p.kind = "object"
        THEN Flatten([j \in 1..Len(p.Fields) |-> findMissingDependencies(c, <<p.Fields[j]>>)])
        ELSE IF Len(getGroupProviders(c, p.Group, Elem(p.Type))) = 0 THEN <<p>> ELSE <<>>])

\* findMissingDependencies: the required single parameters without provider.
findMissingDependencies(c, params) ==
    Flatten([i \in 1..Len(params) |->
        LET p == params[i] IN
        IF p.kind = "single"
        THEN IF Len(getValueProviders(c, p.Name, p.Type)) = 0 /\ ~p.Optional
             THEN <<p>> ELSE <<>>
        ELSE IF p.kind = "object"
        THEN Flatten([j \in 1..Len(p.Fields) |-> findMissingDependencies(c, <<p.Fields[j]>>)])
        ELSE <<>>])

\* An errMissingTypes that holds the first missing dependency only.
missingTypesFirst(c, params) ==
    [i \in 1..(IF Len(findMissingDependencies(c, params)) > 0 THEN 1 ELSE 0) |->
        Key(findMissingDependencies(c, params)[i].Type,
            findMissingDependencies(c, params)[i].Name, "")]

\* The errMissingTypes that shallowCheckDependencies returns: one entry for
\* each missing dependency, in the order they were found.
missingTypes(c, params) ==
    [i \in 1..Len(findMissingDependencies(c, params)) |->
        Key(findMissingDependencies(c, params)[i].Type,
            findMissingDependencies(c, params)[i].Name, "")]

\* shallowCheckDependencies
shallowCheckDependencies(c, params) ==
    IF Len(findMissingDependencies(c, params)) > 0 THEN "errMissingTypes" ELSE "nil"

\* The values the function of constructor id returns on its gen-th execution.
Returned(id, gen, failed) ==
    [i \in 1..Len(Ctors[id].outs) |->
        IF Ctors[id].outs[i].kind = "error"
        THEN IF failed THEN "error" ELSE "nil"
        ELSE Made(id, i, gen)]

\* dryInvoker: zero values, the function is not called.
dryInvoker(id) ==
    [i \in 1..Len(Ctors[id].outs) |->
        IF Ctors[id].outs[i].kind = "error" THEN "nil" ELSE Zero]

Fatal(err) == err = "errStackOverflow"

RECURSIVE Call(_, _, _, _), Build(_, _, _, _), BuildList(_, _, _, _, _, _),
          callValueProviders(_, _, _, _, _, _), callGroupProviders(_, _, _, _, _, _)

\* A loop body of paramSingle.Build that takes any error of the provider of
\* an optional parameter for a missing dependency.
valueProviderCalledForgiving(ps, providers, i, env, depth, r) ==
    IF r.err = "nil" THEN callValueProviders(r.c, ps, providers, i + 1, env, depth)
    ELSE IF Fatal(r.err) THEN [c |-> r.c, err |-> r.err, v |-> NoValue]
    ELSE IF ps.Optional THEN [c |-> r.c, err |-> "nil", v |-> Zero]
    ELSE [c |-> r.c, err |-> "errParamSingleFailed", v |-> NoValue]

\* The body of the loop of paramSingle.Build, r being the result of the Call
\* of the i-th provider.
valueProviderCalled(ps, providers, i, env, depth, r) ==
    IF r.err = "nil" THEN callValueProviders(r.c, ps, providers, i + 1, env, depth)
    ELSE IF Fatal(r.err) THEN [c |-> r.c, err |-> r.err, v |-> NoValue]
    ELSE IF r.err = "errMissingDependencies" /\ ps.Optional
    THEN [c |-> r.c, err |-> "nil", v |-> Zero]
    ELSE [c |-> r.c, err |-> "errParamSingleFailed", v |-> NoValue]

\* A paramSingle.Build that calls every node of the container.
callValueProvidersAll(c, ps, providers, i, env, depth) ==
    IF i > Len(c.nodes)
    THEN [c |-> c, err |-> "nil", v |-> getValue(c, ps.Name, ps.Type)]
    ELSE valueProviderCalled(ps, providers, i, env, depth, Call(c, c.nodes[i], env, depth))

\* The loop of paramSingle.Build over the providers of the key, and the
\* read of the value that follows it.
callValueProviders(c, ps, providers, i, env, depth) ==
    IF i > Len(providers)
    THEN [c |-> c, err |-> "nil", v |-> getValue(c, ps.Name, ps.Type)]
    ELSE valueProviderCalled(ps, providers, i, env, depth, Call(c, providers[i], env, depth))

\* A loop body of paramGroupedSlice.Build that goes on to the next provider
\* when a Call fails.
groupProviderCalledLenient(pt, providers, i, env, depth, r) ==
    IF Fatal(r.err) THEN [c |-> r.c, err |-> r.err, v |-> NoValue]
    ELSE callGroupProviders(r.c, pt, providers, i + 1, env, depth)

\* The body of the loop of paramGroupedSlice.Build, r being the result of
\* the Call of the i-th provider.
groupProviderCalled(pt, providers, i, env, depth, r) ==
    IF r.err = "nil" THEN callGroupProviders(r.c, pt, providers, i + 1, env, depth)
    ELSE IF Fatal(r.err) THEN [c |-> r.c, err |-> r.err, v |-> NoValue]
    ELSE [c |-> r.c, err |-> "errParamGroupFailed", v |-> NoValue]

\* The loop of paramGroupedSlice.Build over the providers of the group, and
\* the read of the group that follows it.
callGroupProviders(c, pt, providers, i, env, depth) ==
    IF i > Len(providers)
    THEN [c |-> c, err |-> "nil", v |-> getValueGroup(c, env.rnd, pt.Group, Elem(pt.Type))]
    ELSE groupProviderCalled(pt, providers, i, env, depth, Call(c, providers[i], env, depth))

\* paramObject.Build, r being the result of building the fields.
objectBuilt(r) == [c |-> r.c, err |-> r.err, v |-> r.args]

\* param.Build: paramSingle.Build, paramGroupedSlice.Build, paramObject.Build
Build(c, p, env, depth) ==
    IF p.kind = "single"
    THEN IF hasValue(c, p.Name, p.Type)
         THEN [c |-> c, err |-> "nil", v |-> getValue(c, p.Name, p.Type)]
         ELSE IF Len(getValueProviders(c, p.Name, p.Type)) = 0
         THEN IF p.Optional THEN [c |-> c, err |-> "nil", v |-> Zero]
              ELSE [c |-> c, err |-> "errMissingTypes", v |-> NoValue]
         ELSE callValueProviders(c, p, getValueProviders(c, p.Name, p.Type), 1, env, depth)
    ELSE IF p.kind = "group"
    THEN callGroupProviders(c, p, getGroupProviders(c, p.Group, Elem(p.Type)), 1, env, depth)
    ELSE objectBuilt(BuildList(c, p.Fields, 1, <<>>, env, depth))

\* The body of the loop of BuildList, r being the i-th parameter's result.
paramBuilt(params, i, args, env, depth, r) ==
    IF r.err # "nil" THEN [c |-> r.c, err |-> r.err, args |-> <<>>]
    ELSE BuildList(r.c, params, i + 1, Append(args, r.v), env, depth)

\* paramList.BuildList: the arguments in order, stopping at the first error.
BuildList(c, params, i, args, env, depth) ==
    IF i > Len(params) THEN [c |-> c, err |-> "nil", args |-> args]
    ELSE paramBuilt(params, i, args, env, depth, Build(c, params[i], env, depth))

\* The container once the invoker has run the function of n with args.
invoked(c, n, args) ==
    IF c.dry THEN c
    ELSE [c EXCEPT !.execs = [@ EXCEPT ![n] = @ + 1],
                   !.ran = Append(@, n),
                   !.passed = [@ EXCEPT ![n] = args],
                   !.before = [values |-> c.values, groups |-> c.groups]]

\* An invoker that is the default one whatever the container was built with.
invokerDefault(c, n, env) == Returned(n, c.execs[n], n \in env.fail)

\* c.invoker()(n.ctor, args): the values returned, c being the container
\* once the function has run.
invoker(c, n, env) ==
    IF c.dry THEN dryInvoker(n) ELSE Returned(n, c.execs[n], n \in env.fail)

\* constructorNode.Call returning errConstructorFailed.  The record added to
\* failed holds the store as Call leaves it and as it was when the function
\* of n was started.
callFailed(c, n) ==
    [c |-> [c EXCEPT !.failed = @ \cup {[n |-> n, before |-> c.before,
                                         values |-> c.values, groups |-> c.groups,
                                         called |-> c.called[n]]}],
     err |-> "errConstructorFailed"]

\* A Call end that marks the node called even when its function failed.
callExtractedMarking(c, n, ex) ==
    IF ex.err # "nil"
    THEN callFailed([c EXCEPT !.called = [@ EXCEPT ![n] = TRUE]], n)
    ELSE [c |-> [Commit(ex.sr, c) EXCEPT !.called = [@ EXCEPT ![n] = TRUE],
                                         !.succs = [@ EXCEPT ![n] = IF c.dry THEN @ ELSE @ + 1]],
          err |-> "nil"]

\* The end of constructorNode.Call: ex is the result of ExtractList into
\* the staging writer.
callExtracted(c, n, ex) ==
    IF ex.err # "nil" THEN callFailed(c, n)
    ELSE [c |-> [Commit(ex.sr, c) EXCEPT !.called = [@ EXCEPT ![n] = TRUE],
                                         !.succs = [@ EXCEPT ![n] = IF c.dry THEN @ ELSE @ + 1]],
          err |-> "nil"]

\* A Call without staging: what was extracted is written to the store before
\* the returned error is looked at.
callUnstaged(c, n, ex) ==
    IF ex.err # "nil" THEN callFailed(Commit(ex.sr, c), n)
    ELSE [c |-> [Commit(ex.sr, c) EXCEPT !.called = [@ EXCEPT ![n] = TRUE],
                                         !.succs = [@ EXCEPT ![n] = IF c.dry THEN @ ELSE @ + 1]],
          err |-> "nil"]

callInvokedUnstaged(c, n, env) ==
    callUnstaged(c, n, ExtractList(newStagingContainerWriter, n, invoker(c, n, env)))

\* constructorNode.Call once the function has run in container c.
callInvoked(c, n, env) ==
    callExtracted(c, n, ExtractList(newStagingContainerWriter, n, invoker(c, n, env)))

\* constructorNode.Call, bl being the result of BuildList.
callBuilt(n, env, bl) ==
    IF Fatal(bl.err) THEN [c |-> bl.c, err |-> bl.err]
    ELSE IF bl.err # "nil" THEN [c |-> bl.c, err |-> "errArgumentsFailed"]
    ELSE callInvoked(invoked(bl.c, n, bl.args), n, env)

\* A Call that does not look at the called flag.
CallUncached(c, n, env, depth) ==
    IF depth = 0 THEN [c |-> c, err |-> "errStackOverflow"]
    ELSE IF shallowCheckDependencies(c, ParamsOf(n)) # "nil"
    THEN [c |-> c, err |-> "errMissingDependencies"]
    ELSE callBuilt(n, env, BuildList(c, ParamsOf(n), 1, <<>>, env, depth - 1))

\* constructorNode.Call
Call(c, n, env, depth) ==
    IF depth = 0 THEN [c |-> c, err |-> "errStackOverflow"]
    ELSE IF c.called[n] THEN [c |-> c, err |-> "nil"]
    ELSE IF shallowCheckDependencies(c, ParamsOf(n)) # "nil"
    THEN [c |-> c, err |-> "errMissingDependencies"]
    ELSE callBuilt(n, env, BuildList(c, ParamsOf(n), 1, <<>>, env, depth - 1))

(***************************************************************************)
(* Invoke                                                                  *)
(***************************************************************************)
InvokeResult(c, err, targetRan, args) ==
    [c |-> c, err |-> err, targetRan |-> targetRan, args |-> args,
     returned |-> <<>>, missing |-> <<>>, checked |-> FALSE]

\* The values the target returns when the invoker of the container runs it:
\* env.tfail decides whether its error result is nil; dryInvoker returns
\* zero values.
TargetReturned(c, fn, env) ==
    [i \in 1..Len(fn.outs) |->
        IF fn.outs[i].kind = "error"
        THEN IF env.tfail /\ ~c.dry THEN "errUser" ELSE "nil"
        ELSE IF c.dry THEN Zero ELSE Made("target", i, 0)]

\* An Invoke end that wraps the error of the target.
invokeReturnedWrapping(c, fn, args, returned) ==
    [InvokeResult(c,
        IF Len(returned) = 0 THEN "nil"
        ELSE IF fn.outs[Len(returned)].kind = "error" /\ returned[Len(returned)] # "nil"
        THEN "errInvokeFailed"
        ELSE "nil",
        ~c.dry, args) EXCEPT !.returned = returned]

\* The end of Invoke: returned is what the invoker returned for the target;
\* its last value is the result of Invoke if it is a non-nil error.
invokeReturned(c, fn, args, returned) ==
    [InvokeResult(c,
        IF Len(returned) = 0 THEN "nil"
        ELSE IF fn.outs[Len(returned)].kind = "error" /\ returned[Len(returned)] # "nil"
        THEN returned[Len(returned)]
        ELSE "nil",
        ~c.dry, args) EXCEPT !.returned = returned]

\* An Invoke end that runs the target whatever BuildList returned.
invokeBuiltRegardless(fn, env, bl) ==
    invokeReturned(bl.c, fn, bl.args, TargetReturned(bl.c, fn, env))

\* Invoke, bl being the result of BuildList: the invoker runs the target
\* with the arguments built.
invokeBuilt(fn, env, bl) ==
    IF Fatal(bl.err) THEN InvokeResult(bl.c, bl.err, FALSE, <<>>)
    ELSE IF bl.err # "nil" THEN InvokeResult(bl.c, "errArgumentsFailed", FALSE, <<>>)
    ELSE invokeReturned(bl.c, fn, bl.args, TargetReturned(bl.c, fn, env))

\* An Invoke that builds the arguments without the acyclicity check.
invokeUnverified(c, fn, params, env) ==
    invokeBuilt(fn, env, BuildList([c EXCEPT !.isVerifiedAcyclic = TRUE],
                                   params, 1, <<>>, env, MaxDepth))

\* Invoke having run graph.IsAcyclic if the graph was not verified yet.
invokeChecked(c, r) == [r EXCEPT !.checked = ~c.isVerifiedAcyclic]

\* An Invoke that does not remember that the graph was found acyclic.
invokeVerifyUncached(c, fn, params, env) ==
    invokeChecked(c,
        IF ~c.isVerifiedAcyclic /\ ~IsAcyclic(GraphOf(c))
        THEN InvokeResult(c, "errCycle", FALSE, <<>>)
        ELSE invokeBuilt(fn, env, BuildList(c, params, 1, <<>>, env, MaxDepth)))

\* Invoke, from the acyclicity check on.
invokeVerify(c, fn, params, env) ==
    invokeChecked(c,
        IF ~c.isVerifiedAcyclic /\ ~IsAcyclic(GraphOf(c))
        THEN InvokeResult(c, "errCycle", FALSE, <<>>)
        ELSE invokeBuilt(fn, env, BuildList([c EXCEPT !.isVerifiedAcyclic = TRUE],
                                            params, 1, <<>>, env, MaxDepth)))

\* Invoke, pl being the parsed parameters of the target.
invokeParsed(c, fn, env, pl) ==
    IF pl.err # "nil" THEN InvokeResult([c EXCEPT !.gh = pl.gh], pl.err, FALSE, <<>>)
    ELSE IF shallowCheckDependencies(c, pl.Params) # "nil"
    THEN [InvokeResult([c EXCEPT !.gh = pl.gh], "errMissingDependencies", FALSE, <<>>)
             EXCEPT !.missing = missingTypes(c, pl.Params)]
    ELSE invokeVerify([c EXCEPT !.gh = pl.gh], fn, pl.Params, env)

\* Container.Invoke of target tid.  env.tfail: the target returns an error.
InvokeCall(c, tid, env) ==
    IF Targets[tid].kind = "nil" THEN InvokeResult(c, "errNil", FALSE, <<>>)
    ELSE IF Targets[tid].kind # "func" THEN InvokeResult(c, "errNotFunc", FALSE, <<>>)
    ELSE invokeParsed(c, Targets[tid], env, newParamList(Targets[tid], c.gh))

(***************************************************************************)
(* The client programs: the constructors and targets one program uses on   *)
(* its container.                                                          *)
(***************************************************************************)
Programs ==
    {[ctors |-> {"NewA", "NewB", "NewA2", "NewAA"}, targets |-> {"UseB", "UseA", "UseOptA"}],
     [ctors |-> {"NewX", "NewY", "NewA"}, targets |-> {"UseX", "UseA"}],
     [ctors |-> {"NewG7", "NewG8", "NewGErr", "NewS"}, targets |-> {"UseG", "UseS"}],
     [ctors |-> {"NewGS", "NewG7", "NewS"}, targets |-> {"UseG", "UseS"}],
     [ctors |-> {"NewBar", "NewA"}, targets |-> {"UseBar", "UseOptA"}],
     [ctors |-> {"NewA", "NewB", "NewC", "NewErr"},
      targets |-> {"UseOptB", "UseOptC", "UseOptZ"}],
     [ctors |-> {"NewErr", "NewMulti", "NewA"}, targets |-> {"UseZ", "UseMG", "UseAZ"}],
     [ctors |-> {"Nil", "NotFunc", "BadOpts", "BadSig", "OnlyErr", "NewA"},
      targets |-> {"UseA"}]}

(***************************************************************************)
(* State                                                                   *)
(***************************************************************************)
VARIABLES
    providers,                 \* Container.providers
    nodes,                     \* Container.nodes
    values,                    \* Container.values
    groups,                    \* Container.groups
    isVerifiedAcyclic,         \* Container.isVerifiedAcyclic
    deferAcyclicVerification,  \* Container.deferAcyclicVerification
    dry,                       \* Container.invokerFn is dryInvoker
    gh,                        \* Container.gh
    called,                    \* constructorNode.called, per node
    execs,                     \* how often each constructor's function was executed
    succs,                     \* how often it returned without an error
    passed,                    \* the arguments of each function's last execution
    last,                      \* the last call: its kind, argument, result
    program,                   \* the functions the client uses
    nProvides,                 \* Provide calls made
    nInvokes,                  \* Invoke calls made
    testEdges,                 \* testGraph.edges of the graph package's tests
    verdict,                   \* what the cycle checks returned for it
    scopes,                    \* the Scope objects, by address (1 is the root)
    holders,                   \* the graphHolder objects, by address
    path,                      \* what GetScopesUntilRoot returned last
    slast,                     \* the last call made on a scope
    commit                     \* a constructorNode.Call followed write by write

vars == <<providers, nodes, values, groups, isVerifiedAcyclic, deferAcyclicVerification,
          dry, gh, called, execs, succs, passed,
          last, program, nProvides, nInvokes, testEdges, verdict,
          scopes, holders, path, slast, commit>>

\* The state of the tests of package graph, and of the scope tree.
testVars == <<testEdges, verdict>>
scopeVars == <<scopes, holders, path, slast>>

\* The container as a record; ran collects the functions one call executes,
\* failed those that returned an error, before is the store when the last
\* function was started.
Container ==
    [providers |-> providers, nodes |-> nodes, values |-> values, groups |-> groups,
     isVerifiedAcyclic |-> isVerifiedAcyclic,
     deferAcyclicVerification |-> deferAcyclicVerification, dry |-> dry, gh |-> gh,
     called |-> called, execs |-> execs, succs |-> succs, passed |-> passed,
     ran |-> <<>>, failed |-> {}, before |-> [values |-> values, groups |-> groups]]

Store(c) ==
    /\ providers' = c.providers
    /\ nodes' = c.nodes
    /\ values' = c.values
    /\ groups' = c.groups
    /\ isVerifiedAcyclic' = c.isVerifiedAcyclic
    /\ gh' = c.gh
    /\ called' = c.called
    /\ execs' = c.execs
    /\ succs' = c.succs
    /\ passed' = c.passed

\* The call kind(id) returns r: the container is left as r.c.
Returns(kind, id, r) ==
    /\ Store(r.c)
    /\ last' = [kind |-> kind, id |-> id, err |-> r.err, ran |-> r.c.ran,
                failed |-> r.c.failed,
                targetRan |-> IF kind = "Invoke" THEN r.targetRan ELSE FALSE,
                args |-> IF kind = "Invoke" THEN r.args ELSE <<>>,
                returned |-> IF kind = "Invoke" THEN r.returned ELSE <<>>,
                missing |-> IF kind = "Invoke" THEN r.missing ELSE <<>>,
                checked |-> IF kind = "Invoke" THEN r.checked ELSE FALSE,
                checks |-> IF kind = "Invoke"
                           THEN last.checks + (IF r.checked THEN 1 ELSE 0)
                           ELSE IF r.c.nodes # nodes THEN 0 ELSE last.checks]

\* GetScopesUntilRoot was not called; no call was made on a scope.
NoPath == [of |-> 0, snapshot |-> "", list |-> <<>>, again |-> <<>>]
NoScopeCall == [kind |-> "New", s |-> 0, id |-> "", err |-> "nil", new |-> 0, n |-> 0]

\* No Call is followed.
NoCommit == [pc |-> "off"]

\* No cycle check has been made.
NoVerdict == [start |-> 0 - 1, ok |-> TRUE, hc |-> FALSE, cycle |-> <<>>,
              paths |-> EmptyMap, all |-> TRUE, allCycle |-> <<>>]

\* New(opts...)
Init ==
    /\ providers = EmptyMap
    /\ nodes = <<>>
    /\ values = EmptyMap
    /\ groups = EmptyMap
    /\ isVerifiedAcyclic = FALSE
    /\ deferAcyclicVerification \in BOOLEAN
    /\ dry \in BOOLEAN
    /\ gh = NewGraphHolder
    /\ called = [n \in CtorIds |-> FALSE]
    /\ execs = [n \in CtorIds |-> 0]
    /\ succs = [n \in CtorIds |-> 0]
    /\ passed = [n \in CtorIds |-> <<>>]
    /\ last = [kind |-> "New", id |-> "", err |-> "nil", ran |-> <<>>, failed |-> {},
               targetRan |-> FALSE, args |-> <<>>, returned |-> <<>>, missing |-> <<>>,
               checked |-> FALSE, checks |-> 0]
    /\ program \in Programs
    /\ nProvides = 0
    /\ nInvokes = 0
    /\ testEdges = EmptyMap
    /\ verdict = NoVerdict
    /\ scopes = <<>>
    /\ holders = <<>>
    /\ path = NoPath
    /\ slast = NoScopeCall
    /\ commit = NoCommit

\* c.Provide(constructor, opts...) for a constructor not yet registered.
Provide ==
    /\ nProvides + nInvokes < MaxCalls
    /\ \E id \in program.ctors \ Range(nodes) :
          Returns("Provide", id, ProvideCall(Container, id))
    /\ nProvides' = nProvides + 1
    /\ UNCHANGED <<deferAcyclicVerification, dry, program, nInvokes, testVars, scopeVars, commit>>

\* The constructors whose function can report a failure.
CanFail == {n \in Range(nodes) : ReturnsError(Ctors[n])}

\* The permutations of 1..n.
Perms(n) == {p \in [1..n -> 1..n] : \A i, j \in 1..n : i # j => p[i] # p[j]}

\* The length of the longest group the registered constructors can fill.
MaxGroupLen ==
    LET GroupedResults(n) == {i \in 1..Len(ResultsOf(n)) : ResultsOf(n)[i].kind = "grouped"}
        count[S \in SUBSET Range(nodes)] ==
            IF S = {} THEN 0
            ELSE LET n == CHOOSE x \in S : TRUE
                 IN Cardinality(GroupedResults(n)) + count[S \ {n}]
    IN count[Range(nodes)]

\* c.Invoke(function)
Invoke ==
    /\ nProvides + nInvokes < MaxCalls
    /\ \E tid \in program.targets, fail \in SUBSET CanFail,
          tfail \in BOOLEAN, rnd \in Perms(MaxGroupLen) :
          /\ tfail => ReturnsError(Targets[tid])
          /\ Returns("Invoke", tid,
                 InvokeCall(Container, tid, [fail |-> fail, tfail |-> tfail, rnd |-> rnd]))
    /\ nInvokes' = nInvokes + 1
    /\ UNCHANGED <<deferAcyclicVerification, dry, program, nProvides, testVars, scopeVars, commit>>

Next == Provide \/ Invoke

Spec == Init /\ [][Next]_vars

(***************************************************************************)
(* The cycle checks of package graph, run on the graphs its tests build.   *)
(***************************************************************************)
\* newTestGraph(), on a container that is left alone.
InitGraph ==
    /\ Init
    /\ deferAcyclicVerification = FALSE /\ dry = FALSE
    /\ program = CHOOSE pr \in Programs : TRUE

\* The edges in testEdges.
EdgeCount(te) == Cardinality({<<u, i>> \in (DOMAIN te) \X (1..MaxEdges) : i <= Len(te[u])})

\* testGraph.AddEdge(from, to): to is appended to the list of from, and
\* becomes a known node.
AddEdgeTo(te, from, to) ==
    [u \in (DOMAIN te) \cup {from, to} |->
        IF u = from THEN Append(Get(te, from, <<>>), to) ELSE Get(te, u, <<>>)]

\* The nodes of a test graph are numbered from 0 on, as Count() and
\* EdgesFrom(i) need them: a new node takes the next number.
AddEdge ==
    /\ verdict = NoVerdict
    /\ EdgeCount(testEdges) < MaxEdges
    /\ \E from, to \in 0..(MaxNodes - 1) :
          /\ {from, to} \subseteq 0..Cardinality(DOMAIN testEdges \cup {from})
          /\ from <= Cardinality(DOMAIN testEdges)
          /\ to \notin Range(Get(testEdges, from, <<>>))
          /\ testEdges' = AddEdgeTo(testEdges, from, to)
    /\ UNCHANGED <<providers, nodes, values, groups, isVerifiedAcyclic,
                   deferAcyclicVerification, dry, gh, called, execs, succs, passed,
                   last, program, nProvides, nInvokes, verdict, scopeVars, commit>>

\* The test graph as the checks see it: Count() and EdgesFrom(i).
TestGraph(te) ==
    [count |-> Cardinality(DOMAIN te),
     edges |-> [i \in 1..Cardinality(DOMAIN te) |-> Get(te, i - 1, <<>>)]]

\* VerifyAcyclic(g, n) and HasCycle(g, n) for a node n of the test graph,
\* getCyclePath(s, bt) for each node s and the backtrack map bt that the
\* traversal from n left, and IsAcyclic(g).
CheckCycles ==
    /\ verdict = NoVerdict
    /\ \E n \in DOMAIN testEdges :
          verdict' = [start |-> n,
                      ok |-> VerifyAcyclic(TestGraph(testEdges), n).ok,
                      hc |-> HasCycle(TestGraph(testEdges), n).hc,
                      cycle |-> VerifyAcyclicCycle(TestGraph(testEdges), n),
                      paths |-> [s \in DOMAIN testEdges |->
                                    getCyclePath(s, VerifyAcyclic(TestGraph(testEdges), n)
                                                        .info.backtrack)],
                      all |-> IsAcyclic(TestGraph(testEdges)),
                      allCycle |-> IsAcyclicCycle(TestGraph(testEdges))]
    /\ UNCHANGED <<providers, nodes, values, groups, isVerifiedAcyclic,
                   deferAcyclicVerification, dry, gh, called, execs, succs, passed,
                   last, program, nProvides, nInvokes, testEdges, scopeVars, commit>>

NextGraph == AddEdge \/ CheckCycles

SpecGraph == InitGraph /\ [][NextGraph]_vars

(***************************************************************************)
(* Properties                                                              *)
(***************************************************************************)
\* How often n occurs in the sequence s.
Count(s, n) == Cardinality({i \in 1..Len(s) : s[i] = n})

\* The parameters of target tid.
TargetParams(tid) == newParamList(Targets[tid], NewGraphHolder).Params

\* C1: across any sequence of Provide and Invoke calls, the function of a
\* constructor returns successfully at most once, and once the node is marked
\* called no later call executes the function again.
C1_AtMostOnce ==
    [][\A n \in CtorIds :
          /\ succs'[n] <= 1
          /\ called[n] => execs'[n] = execs[n]]_vars

\* A second Invoke of UseB that succeeds without executing anything: NewA and
\* NewB were executed once each by the first one.
C1_Reused ==
    /\ last.kind = "Invoke" /\ last.id = "UseB" /\ last.err = "nil" /\ last.targetRan
    /\ last.ran = <<>>
    /\ nInvokes = 2
    /\ execs["NewA"] = 1 /\ execs["NewB"] = 1
    /\ called["NewA"] /\ called["NewB"]
    /\ last.args = <<Made("NewB", 1, 1)>> /\ passed["NewB"] = <<Made("NewA", 1, 1)>>

\* C2: a Provide that returns a cycle error leaves the providers map as it
\* was before the call: the same keys with the same provider lists.
C2_ProvidersRestored ==
    [][(last'.kind = "Provide" /\ last'.err = "errCycle") => providers' = providers]_vars

\* C3: when the function of a constructor returns an error, Call leaves the
\* values and the groups as they were when the function was started, and the
\* node is not marked called.
C3_NothingCommitted ==
    \A f \in last.failed :
        /\ f.values = f.before.values
        /\ f.groups = f.before.groups
        /\ ~f.called

\* NewMulti, which returns a single value, a group entry and an error, has
\* failed: neither the value nor the group entry is in the store.
C3_MultiFailed ==
    /\ last.kind = "Invoke" /\ last.err = "errArgumentsFailed"
    /\ \E f \in last.failed : f.n = "NewMulti" /\ Len(ResultsOf(f.n)) = 2
    /\ Key("M", "", "") \notin DOMAIN values
    /\ Key("int", "", "g") \notin DOMAIN groups
    /\ execs["NewMulti"] = 1 /\ ~called["NewMulti"]

\* Target tid takes a value that constructor n provides as a parameter of
\* its own, every parameter before it being a single one whose providers
\* cannot fail.
DemandsFirst(tid, n) ==
    \E i \in 1..Len(TargetParams(tid)) :
        /\ \A j \in 1..i : TargetParams(tid)[j].kind = "single"
        /\ n \in Range(getValueProviders(Container, TargetParams(tid)[i].Name,
                                          TargetParams(tid)[i].Type))
        /\ \A j \in 1..(i - 1) :
              \A m \in Range(getValueProviders(Container, TargetParams(tid)[j].Name,
                                                TargetParams(tid)[j].Type)) :
                  ~ReturnsError(Ctors[m]) /\ ParamsOf(m) = <<>>

\* C4: an Invoke in which the function of a constructor returns an error
\* fails, having executed that function once, and leaves the node not
\* called; a later Invoke that demands an output of the node executes the
\* function again.
C4_FailedIsRetried ==
    [][/\ \A f \in last'.failed :
             /\ last'.kind = "Invoke" /\ last'.err # "nil" /\ ~last'.targetRan
             /\ Count(last'.ran, f.n) = 1
             /\ ~called'[f.n]
       /\ \A n \in Range(nodes) :
             (/\ execs[n] > 0 /\ ~called[n]
              /\ last'.kind = "Invoke" /\ DemandsFirst(last'.id, n)
              /\ last'.err \notin {"errMissingDependencies", "errCycle"})
             => execs'[n] = execs[n] + 1]_vars

\* NewErr failed in one Invoke and was executed again by the next.
C4_Retried ==
    /\ last.kind = "Invoke" /\ last.id = "UseZ"
    /\ execs["NewErr"] = 2
    /\ succs["NewErr"] = 0
    /\ ~called["NewErr"]
    /\ \E f \in last.failed : f.n = "NewErr"

RECURSIVE LeafParams(_)

\* The single and group parameters of ps, those of objects included.
LeafParams(ps) ==
    Flatten([i \in 1..Len(ps) |->
        IF ps[i].kind = "object" THEN LeafParams(ps[i].Fields) ELSE <<ps[i]>>])

\* The constructors registered as providers of what parameter p asks for.
ProvidersFor(p) ==
    IF p.kind = "single" THEN Range(getValueProviders(Container, p.Name, p.Type))
    ELSE Range(getGroupProviders(Container, p.Group, Elem(p.Type)))

\* The constructors whose outputs constructor n is built from.
Requires(n) == UNION {ProvidersFor(p) : p \in Range(LeafParams(ParamsOf(n)))}

\* The constructors registered as a provider of some key.
Registered == UNION {Range(providers[k]) : k \in DOMAIN providers}

RECURSIVE Closure(_)

ClosureStep(S, T) == IF T = S THEN S ELSE Closure(T)

\* S with everything the constructors of S are built from, directly or not.
Closure(S) == ClosureStep(S, S \cup UNION {Requires(m) : m \in S})

\* Some registered constructor is built, directly or not, from an output of
\* its own.
DependencyCycle == \E n \in Registered : n \in Closure(Requires(n))

\* C5: with or without deferred verification, an Invoke that builds
\* arguments, executes a constructor or executes its target does so on a
\* container whose constructors do not depend on one another in a cycle and
\* whose graph has been verified since the last provider was added.
C5_AcyclicWhenResolving ==
    (/\ last.kind = "Invoke"
     /\ \/ last.ran # <<>>
        \/ last.targetRan
        \/ last.err \in {"nil", "errUser", "errArgumentsFailed"})
    => (isVerifiedAcyclic /\ ~DependencyCycle)

\* With deferred verification NewX and NewY, which need each other, are both
\* registered, and an Invoke has returned the cycle error without executing
\* anything.
C5_CycleRefused ==
    /\ deferAcyclicVerification
    /\ DependencyCycle
    /\ {"NewX", "NewY"} \subseteq Range(nodes)
    /\ last.kind = "Invoke" /\ last.err = "errCycle"
    /\ last.ran = <<>> /\ ~last.targetRan
    /\ \A n \in CtorIds : execs[n] = 0

\* The errors of a Provide that rejects the constructor for what it is: nil
\* or not a function, invalid options, a malformed signature, no result
\* besides an error, a single key provided twice.
ShapeErrors ==
    {"errNil", "errNotFunc", "errOptions", "errParam", "errResult", "errNoResult",
     "errDuplicate"}

\* C6: a Provide that returns one of these errors leaves the node list and
\* the order map of the graph, the providers, the nodes, the values and the
\* groups as they were, and a constructor that is not registered is never
\* executed.
C6_RejectedLeavesNoTrace ==
    [][/\ (last'.kind = "Provide" /\ last'.err \in ShapeErrors) =>
             /\ gh'.nodes = gh.nodes /\ gh'.orders = gh.orders
             /\ providers' = providers
             /\ nodes' = nodes
             /\ values' = values
             /\ groups' = groups
       /\ \A n \in CtorIds \ Range(nodes') : execs'[n] = 0 /\ ~called'[n]]_vars

\* BadSig, whose group parameter put a node into the graph before its
\* malformed parameter was found, was rejected, and an Invoke after that
\* executed NewA only.
C6_BadSigRejected ==
    /\ last.kind = "Invoke" /\ last.id = "UseA" /\ last.err = "nil"
    /\ nProvides = 2
    /\ nodes = <<"NewA">>
    /\ Len(gh.nodes) = 1
    /\ DOMAIN gh.orders = {Key("func() A", "", "")}
    /\ DOMAIN providers = {Key("A", "", "")}
    /\ execs["BadSig"] = 0 /\ execs["NewA"] = 1
    /\ "BadSig" \in program.ctors

\* The keys of the single results of constructor id, as often as they occur.
SingleKeys(id) ==
    Flatten([i \in 1..Len(ResultsOf(id)) |->
        IF ResultsOf(id)[i].kind = "single"
        THEN <<ResultKey(ResultsOf(id)[i])>>
             \o [j \in 1..Len(ResultsOf(id)[i].As) |->
                    Key(ResultsOf(id)[i].As[j], ResultsOf(id)[i].Name, "")]
        ELSE <<>>])

\* C7: a key without a group never has more than one provider; a Provide
\* of a constructor with a single key that has a provider already, or with
\* the same single key twice among its results, returns an error; a group
\* key takes every provider.
C7_OneProviderPerSingleKey ==
    [][/\ \A k \in DOMAIN providers' : k.group = "" => Len(providers'[k]) <= 1
       /\ (/\ last'.kind = "Provide"
           /\ Ctors[last'.id].kind = "func"
           /\ \/ \E i \in 1..Len(SingleKeys(last'.id)) :
                    Len(Get(providers, SingleKeys(last'.id)[i], <<>>)) > 0
              \/ \E i, j \in 1..Len(SingleKeys(last'.id)) :
                    i # j /\ SingleKeys(last'.id)[i] = SingleKeys(last'.id)[j])
          => (last'.err # "nil" /\ providers' = providers)
       /\ (/\ last'.kind = "Provide" /\ last'.err = "nil")
          => \A i \in 1..Len(ResultsOf(last'.id)) :
                 /\ last'.id \in Range(providers'[ResultKey(ResultsOf(last'.id)[i])])
                 /\ Len(providers'[ResultKey(ResultsOf(last'.id)[i])])
                      = Len(Get(providers, ResultKey(ResultsOf(last'.id)[i]), <<>>)) + 1]_vars

\* NewA2, which provides the key of NewA again, was rejected.
C7_DuplicateRejected ==
    /\ last.kind = "Provide" /\ last.id = "NewA2" /\ last.err = "errDuplicate"
    /\ providers[Key("A", "", "")] = <<"NewA">>
    /\ nodes = <<"NewA">>

\* The sequences a and b hold the same values, each as often.
SameMultiset(a, b) ==
    /\ Len(a) = Len(b)
    /\ \A v \in Range(a) \cup Range(b) : Count(a, v) = Count(b, v)

\* The key of the group of ints named g, which every constructor of the
\* group contributes one value to.
GroupG == Key("int", "", "g")

\* C8: an Invoke of UseG, whose parameter is the group g, that succeeds
\* passes as many values as the group has providers, the values being those
\* stored for the group in some order; when every provider had been called
\* before, the group is left as it was, so that the values are those of the
\* resolution before.
C8_GroupHoldsAll ==
    [][(last'.kind = "Invoke" /\ last'.id = "UseG" /\ last'.err = "nil") =>
          /\ Len(last'.args[1][1]) = Len(Get(providers, GroupG, <<>>))
          /\ SameMultiset(last'.args[1][1], Get(groups', GroupG, <<>>))
          /\ (\A n \in Range(Get(providers, GroupG, <<>>)) : called[n])
                => (groups' = groups /\ last'.ran = <<>>)
          /\ (last.kind = "Invoke" /\ last.id = "UseG" /\ last.err = "nil")
                => SameMultiset(last'.args[1][1], last.args[1][1])]_vars

\* The second Invoke of UseG in a row: it received the two values of NewG7
\* and NewG8 without executing anything, in another order than they are
\* stored in.
C8_ResolvedAgain ==
    /\ last.kind = "Invoke" /\ last.id = "UseG" /\ last.err = "nil"
    /\ nInvokes = 2 /\ nProvides = 2
    /\ last.ran = <<>>
    /\ Range(last.args[1][1]) = {Made("NewG7", 1, 1), Made("NewG8", 1, 1)}
    /\ Len(last.args[1][1]) = 2
    /\ last.args[1][1] # groups[GroupG]

\* Parameter p is an optional single one whose key has no provider.
AbsentOptional(p) ==
    /\ p.kind = "single" /\ p.Optional
    /\ Len(getValueProviders(Container, p.Name, p.Type)) = 0

RECURSIVE ZeroForAbsent(_, _)

\* In the arguments args built for the parameters ps every optional single
\* parameter without provider has the zero value.
ZeroForAbsent(ps, args) ==
    /\ Len(args) = Len(ps)
    /\ \A i \in 1..Len(ps) :
          IF ps[i].kind = "object" THEN ZeroForAbsent(ps[i].Fields, args[i])
          ELSE AbsentOptional(ps[i]) => args[i] = Zero

\* C9: an optional single parameter whose key has no provider is not
\* reported missing and is passed as the zero value, to a constructor as to
\* the target of Invoke; a function all of whose parameters are such is
\* executed.
C9_AbsentOptionalIsZero ==
    [][last'.kind = "Invoke" =>
          /\ \A n \in Range(last'.ran) : ZeroForAbsent(ParamsOf(n), passed'[n])
          /\ last'.targetRan => ZeroForAbsent(TargetParams(last'.id), last'.args)
          /\ \A n \in Range(nodes) \cup {last'.id} :
                \A p \in Range(LeafParams(IF n = last'.id THEN TargetParams(n)
                                                            ELSE ParamsOf(n))) :
                    AbsentOptional(p) =>
                        p \notin Range(findMissingDependencies(Container, <<p>>))
          /\ (\A p \in Range(LeafParams(TargetParams(last'.id))) : AbsentOptional(p))
                => /\ last'.err \in {"nil", "errUser"}
                   /\ dry \/ last'.targetRan
          /\ (last'.id = "UseBar" /\ "NewBar" \in Range(nodes) /\ ~called["NewBar"] /\ ~dry)
                => /\ last'.err = "nil" /\ last'.targetRan
                   /\ last'.ran = <<"NewBar">>
                   /\ passed'["NewBar"] = << <<Zero>> >>]_vars

\* NewBar, whose optional Foo has no provider, was executed with the zero
\* value for it, and the target received the Bar it made.
C9_BarBuiltWithoutFoo ==
    /\ last.kind = "Invoke" /\ last.id = "UseBar" /\ last.err = "nil" /\ last.targetRan
    /\ last.ran = <<"NewBar">>
    /\ passed["NewBar"] = << <<Zero>> >>
    /\ last.args = <<Made("NewBar", 1, 1)>>
    /\ Key("Foo", "", "") \notin DOMAIN providers

RECURSIVE Resolved(_, _)

\* The arguments args are what the parameters ps resolve to in the store:
\* the stored value for a single parameter whose key has a provider, the
\* zero value for one without, for a group the values of the group, every
\* provider of which has been called.
Resolved(ps, args) ==
    /\ Len(args) = Len(ps)
    /\ \A i \in 1..Len(ps) :
          IF ps[i].kind = "object" THEN Resolved(ps[i].Fields, args[i])
          ELSE IF ps[i].kind = "group"
          THEN /\ SameMultiset(args[i], Get(groups, Key(Elem(ps[i].Type), "", ps[i].Group), <<>>))
               /\ \A n \in ProvidersFor(ps[i]) : called[n]
          ELSE IF ProvidersFor(ps[i]) = {} THEN ps[i].Optional /\ args[i] = Zero
          ELSE \/ /\ Key(ps[i].Type, ps[i].Name, "") \in DOMAIN values
                  /\ args[i] = values[Key(ps[i].Type, ps[i].Name, "")]
                  /\ \A n \in ProvidersFor(ps[i]) : called[n]
               \/ ps[i].Optional /\ args[i] = Zero

\* C10: when Invoke has executed its target, it returns nil or the error of
\* the target, and every parameter of the target has been resolved; an
\* Invoke whose target has a required parameter without provider, whose
\* container has a dependency cycle, or in which a constructor failed, does
\* not execute the target and returns an error.
C10_TargetAfterArguments ==
    (last.kind = "Invoke") =>
        /\ last.targetRan =>
              /\ last.err \in {"nil", "errUser"}
              /\ last.failed = {}
              /\ Resolved(TargetParams(last.id), last.args)
        /\ (\/ Len(findMissingDependencies(Container, TargetParams(last.id))) > 0
            \/ DependencyCycle
            \/ last.failed # {})
              => (~last.targetRan /\ last.err \notin {"nil", "errUser"})

\* An Invoke of UseB failed below its target: NewB is registered and NewA,
\* which NewB needs, is not; neither NewB nor the target was executed.
C10_FailedBelow ==
    /\ last.kind = "Invoke" /\ last.id = "UseB" /\ last.err = "errArgumentsFailed"
    /\ "NewB" \in Range(nodes) /\ "NewA" \notin Range(nodes)
    /\ Len(findMissingDependencies(Container, TargetParams("UseB"))) = 0
    /\ ~last.targetRan /\ last.ran = <<>>

\* C11: when Invoke has run its target, it returns the last value the
\* target returned if that is a non-nil error, as it is, and nil if that
\* value is a nil error, is no error, or the target returns nothing; with
\* the dry invoker it returns nil.
C11_TargetErrorUnwrapped ==
    (last.kind = "Invoke") =>
        /\ last.targetRan =>
              /\ Len(last.returned) = Len(Targets[last.id].outs)
              /\ IF /\ Len(last.returned) > 0
                    /\ Targets[last.id].outs[Len(last.returned)].kind = "error"
                    /\ last.returned[Len(last.returned)] # "nil"
                 THEN last.err = last.returned[Len(last.returned)]
                 ELSE last.err = "nil"
        /\ (dry /\ last.returned # <<>>) => last.err = "nil"

\* UseA was run with the value of NewA and returned an error, which is what
\* Invoke returned.
C11_UserErrorReturned ==
    /\ last.kind = "Invoke" /\ last.id = "UseA" /\ last.targetRan
    /\ last.args = <<Made("NewA", 1, 1)>>
    /\ last.returned = <<"errUser">>
    /\ last.err = "errUser"

\* The keys of the required single parameters of target tid, those of its
\* objects included, that have no provider.
MissingKeys(tid) ==
    {Key(p.Type, p.Name, "") :
        p \in {q \in Range(LeafParams(TargetParams(tid))) :
                  q.kind = "single" /\ ~q.Optional /\ ProvidersFor(q) = {}}}

\* C12: an Invoke whose target has required parameters without provider
\* returns the missing-dependency error, which lists each of these keys
\* once, executes nothing, and leaves providers, values, groups and the
\* called flags as they were.
C12_AllMissingReported ==
    [][(last'.kind = "Invoke" /\ Targets[last'.id].kind = "func"
        /\ MissingKeys(last'.id) # {}) =>
          /\ last'.err = "errMissingDependencies"
          /\ Range(last'.missing) = MissingKeys(last'.id)
          /\ Len(last'.missing) = Cardinality(MissingKeys(last'.id))
          /\ last'.ran = <<>> /\ ~last'.targetRan
          /\ providers' = providers /\ values' = values /\ groups' = groups
          /\ called' = called /\ execs' = execs]_vars

\* UseAZ was invoked in a container that has NewMulti and no provider of A
\* or of Z: the error lists both keys and nothing was executed.
C12_BothMissing ==
    /\ last.kind = "Invoke" /\ last.id = "UseAZ" /\ last.err = "errMissingDependencies"
    /\ last.missing = <<Key("A", "", ""), Key("Z", "", "")>>
    /\ "NewMulti" \in Range(nodes)
    /\ last.ran = <<>>

\* The constructors that the providers map provs holds for what parameter p
\* asks for.
ProvidersAmong(provs, p) ==
    IF p.kind = "single" THEN Range(Get(provs, Key(p.Type, p.Name, ""), <<>>))
    ELSE Range(Get(provs, Key(Elem(p.Type), "", p.Group), <<>>))

RequiresAmong(provs, n) ==
    UNION {ProvidersAmong(provs, p) : p \in Range(LeafParams(ParamsOf(n)))}

RECURSIVE ClosureAmong(_, _)

ClosureAmongStep(provs, S, T) == IF T = S THEN S ELSE ClosureAmong(provs, T)

ClosureAmong(provs, S) ==
    ClosureAmongStep(provs, S, S \cup UNION {RequiresAmong(provs, m) : m \in S})

\* With the providers map provs some constructor is built, directly or not,
\* from an output of its own.
CycleAmong(provs) ==
    \E k \in DOMAIN provs : \E n \in Range(provs[k]) :
        n \in ClosureAmong(provs, RequiresAmong(provs, n))

\* C13: with deferred verification no Provide returns the cycle error, and
\* one that closes a dependency cycle returns nil and registers its
\* constructor; while there is a cycle, an Invoke whose target has a
\* provider for every required parameter returns the cycle error and
\* executes nothing, whether or not the target needs a constructor of the
\* cycle.
C13_DeferredCycleAtInvoke ==
    [][deferAcyclicVerification =>
          /\ last'.kind = "Provide" => last'.err # "errCycle"
          /\ (last'.kind = "Provide" /\ CycleAmong(providers') /\ ~DependencyCycle)
                => /\ last'.err = "nil"
                   /\ nodes' = Append(nodes, last'.id)
                   /\ \E k \in DOMAIN providers' : last'.id \in Range(providers'[k])
          /\ (last'.kind = "Invoke" /\ DependencyCycle /\ MissingKeys(last'.id) = {})
                => /\ last'.err = "errCycle"
                   /\ last'.ran = <<>> /\ ~last'.targetRan
                   /\ execs' = execs /\ called' = called
                   /\ values' = values /\ groups' = groups]_vars

\* With deferred verification NewX, NewY and NewA are registered; the
\* Invoke of UseA, which needs NewA only, returned the cycle error and NewA
\* was not executed.
C13_UnrelatedTargetRefused ==
    /\ deferAcyclicVerification
    /\ Range(nodes) = {"NewX", "NewY", "NewA"}
    /\ last.kind = "Invoke" /\ last.id = "UseA" /\ last.err = "errCycle"
    /\ "NewA" \notin Closure({"NewX"})
    /\ execs["NewA"] = 0 /\ ~called["NewA"]

\* The constructors that target tid is built from, directly or not.
TargetRequires(tid) ==
    Closure(UNION {ProvidersFor(p) : p \in Range(LeafParams(TargetParams(tid)))})

\* C14: Provide executes no function; an Invoke executes only constructors
\* that provide a parameter of its target or, in turn, a parameter of such a
\* constructor, so that a constructor outside of these is left unexecuted.
C14_OnlyWhatIsRequired ==
    [][/\ last'.kind = "Provide" =>
             (last'.ran = <<>> /\ execs' = execs /\ called' = called /\ ~last'.targetRan)
       /\ last'.kind = "Invoke" =>
             /\ Range(last'.ran) \subseteq TargetRequires(last'.id)
             /\ \A n \in CtorIds \ TargetRequires(last'.id) :
                   execs'[n] = execs[n] /\ called'[n] = called[n]]_vars

\* NewA and NewB are registered and UseA was invoked: NewA was executed and
\* NewB, which UseA does not need, was not.
C14_UnrequiredNotRun ==
    /\ Range(nodes) = {"NewA", "NewB"}
    /\ last.kind = "Invoke" /\ last.id = "UseA" /\ last.targetRan
    /\ last.ran = <<"NewA">>
    /\ execs["NewB"] = 0 /\ ~called["NewB"]
    /\ nInvokes = 1

\* C15: in a dry run no function is ever executed, constructor or target;
\* every value and every group entry in the store is a zero value; an
\* Invoke returns nil when its target and the constructors it is built from
\* have a provider for every required parameter and there is no dependency
\* cycle, and then the providers of the parameters of the target are marked
\* called; the results of every constructor marked called are in the store.
C15_DryRunExecutesNothing ==
    [][dry =>
          /\ \A n \in CtorIds : execs'[n] = 0 /\ passed'[n] = <<>>
          /\ last'.ran = <<>> /\ ~last'.targetRan
          /\ \A k \in DOMAIN values' : values'[k] = Zero
          /\ \A k \in DOMAIN groups' : \A i \in 1..Len(groups'[k]) : groups'[k][i] = Zero
          /\ (/\ last'.kind = "Invoke"
              /\ MissingKeys(last'.id) = {}
              /\ \A n \in TargetRequires(last'.id) :
                    Len(findMissingDependencies(Container, ParamsOf(n))) = 0
              /\ ~DependencyCycle)
                => /\ last'.err = "nil"
                   /\ \A p \in Range(LeafParams(TargetParams(last'.id))) :
                         \A n \in ProvidersFor(p) : called'[n]
          /\ \A n \in Range(nodes') :
                called'[n] =>
                    \A i \in 1..Len(ResultsOf(n)) :
                        IF ResultsOf(n)[i].kind = "single"
                        THEN ResultKey(ResultsOf(n)[i]) \in DOMAIN values'
                        ELSE ResultKey(ResultsOf(n)[i]) \in DOMAIN groups']_vars

\* In a dry run UseB was invoked with NewA and NewB registered: both are
\* marked called, the store holds zero values for A and B, and no function
\* was executed.
C15_DryResolved ==
    /\ dry
    /\ last.kind = "Invoke" /\ last.id = "UseB" /\ last.err = "nil"
    /\ called["NewA"] /\ called["NewB"]
    /\ values[Key("A", "", "")] = Zero /\ values[Key("B", "", "")] = Zero
    /\ last.args = <<Zero>>
    /\ execs["NewA"] = 0 /\ execs["NewB"] = 0 /\ ~last.targetRan

(***************************************************************************)
(* The scope tree. A Scope holds the fields of a container and its place   *)
(* in the tree; scopes and graph holders are objects, told apart by their  *)
(* addresses. Provide and Invoke on a scope are those of the container,    *)
(* applied to the fields of that scope.                                    *)
(***************************************************************************)
\* The functions the client of a scope tree uses.
ScopeCtors == {"NewA", "NewB"}
ScopeTargets == {"UseB", "UseA"}

\* The fields that belong to one call, not to the scope.
CallFields == {"gh", "ran", "failed", "before"}

\* The fields of a container that a scope holds itself (its graph holder is
\* held by address).
StoreOf(c) == [f \in (DOMAIN c) \ CallFields |-> c[f]]

\* The fields of a scope with nothing registered, whose invokerFn is given.
EmptyStore(dryFn) ==
    [providers |-> EmptyMap, nodes |-> <<>>, values |-> EmptyMap, groups |-> EmptyMap,
     isVerifiedAcyclic |-> FALSE, deferAcyclicVerification |-> FALSE, dry |-> dryFn,
     called |-> [n \in CtorIds |-> FALSE], execs |-> [n \in CtorIds |-> 0],
     succs |-> [n \in CtorIds |-> 0], passed |-> [n \in CtorIds |-> <<>>]]

\* The scope at address s as the container Provide and Invoke work on.
ScopeContainer(sc, hs, s) ==
    sc[s].st @@ [gh |-> hs[sc[s].gh].g, ran |-> <<>>, failed |-> {},
                 before |-> [values |-> sc[s].st.values, groups |-> sc[s].st.groups]]

\* A cloneScope whose child uses the graph holder of s.
cloneScopeSharing(sc, hs, s) ==
    [child |-> [parentScope |-> s, childScopes |-> <<>>, gh |-> sc[s].gh,
                st |-> EmptyStore(sc[s].st.dry), rand |-> FALSE],
     gh |-> [s |-> Len(sc) + 1, g |-> NewGraphHolder]]

\* A cloneScope that copies the fields of s.
cloneScopeCopying(sc, hs, s) ==
    [child |-> [parentScope |-> s, childScopes |-> <<>>, gh |-> Len(hs) + 1,
                st |-> sc[s].st, rand |-> sc[s].rand],
     gh |-> [s |-> Len(sc) + 1, g |-> NewGraphHolder]]

\* A cloneScope whose child gets the parent of s.
cloneScopeSibling(sc, hs, s) ==
    [child |-> [parentScope |-> IF s = 1 THEN s ELSE sc[s].parentScope,
                childScopes |-> <<>>, gh |-> Len(hs) + 1,
                st |-> EmptyStore(sc[s].st.dry), rand |-> FALSE],
     gh |-> [s |-> Len(sc) + 1, g |-> NewGraphHolder]]

\* s.cloneScope(): the child, a new object, and its graph holder, another.
cloneScope(sc, hs, s) ==
    [child |-> [parentScope |-> s, childScopes |-> <<>>, gh |-> Len(hs) + 1,
                st |-> EmptyStore(sc[s].st.dry), rand |-> FALSE],
     gh |-> [s |-> Len(sc) + 1, g |-> NewGraphHolder]]

\* The rest of Scope(), cl being what cloneScope returned.
scopeCloned(sc, hs, s, cl) ==
    [scopes |-> Append([sc EXCEPT ![s].childScopes = Append(@, Len(sc) + 1)], cl.child),
     holders |-> Append(hs, cl.gh),
     new |-> Len(sc) + 1]

\* s.Scope(opts...)
ScopeCall(sc, hs, s) == scopeCloned(sc, hs, s, cloneScope(sc, hs, s))

RECURSIVE GetScopesUntilRoot(_, _, _)
\* s.GetScopesUntilRoot(), as written in the given snapshot of scope.go: at
\* the root the one returns nil, the other the list of the root.
GetScopesUntilRoot(snapshot, sc, s) ==
    IF sc[s].parentScope # 0
    THEN Append(GetScopesUntilRoot(snapshot, sc, sc[s].parentScope), s)
    ELSE IF snapshot = "scope.go" THEN <<>> ELSE <<s>>

\* New(opts...), then the tree of scopes under it: the options decide the
\* invoker and the deferral of the root, which has a source of randomness
\* (the field rand of a scope tells whether it has one).
InitScopes ==
    /\ providers = EmptyMap /\ nodes = <<>> /\ values = EmptyMap /\ groups = EmptyMap
    /\ isVerifiedAcyclic = FALSE /\ deferAcyclicVerification \in BOOLEAN
    /\ dry \in BOOLEAN
    /\ gh = NewGraphHolder
    /\ called = [n \in CtorIds |-> FALSE]
    /\ execs = [n \in CtorIds |-> 0]
    /\ succs = [n \in CtorIds |-> 0]
    /\ passed = [n \in CtorIds |-> <<>>]
    /\ last = [kind |-> "New", id |-> "", err |-> "nil", ran |-> <<>>, failed |-> {},
               targetRan |-> FALSE, args |-> <<>>, returned |-> <<>>, missing |-> <<>>,
               checked |-> FALSE, checks |-> 0]
    /\ program = [ctors |-> ScopeCtors, targets |-> ScopeTargets]
    /\ nProvides = 0 /\ nInvokes = 0
    /\ testEdges = EmptyMap /\ verdict = NoVerdict
    /\ scopes = <<[parentScope |-> 0, childScopes |-> <<>>, gh |-> 1,
                   st |-> [EmptyStore(dry) EXCEPT
                              !.deferAcyclicVerification = deferAcyclicVerification],
                   rand |-> TRUE]>>
    /\ holders = <<[s |-> 1, g |-> NewGraphHolder]>>
    /\ path = NoPath
    /\ slast = NoScopeCall
    /\ commit = NoCommit

containerVars ==
    <<providers, nodes, values, groups, isVerifiedAcyclic, deferAcyclicVerification,
      dry, gh, called, execs, succs, passed, last, program, nProvides, nInvokes>>

\* s.Scope() for a scope s of the tree.
Scope ==
    /\ path = NoPath
    /\ Len(scopes) < MaxScopes
    /\ \E s \in 1..Len(scopes) :
          /\ scopes' = ScopeCall(scopes, holders, s).scopes
          /\ holders' = ScopeCall(scopes, holders, s).holders
          /\ slast' = [kind |-> "Scope", s |-> s, id |-> "", err |-> "nil",
                       new |-> ScopeCall(scopes, holders, s).new, n |-> slast.n]
    /\ UNCHANGED <<containerVars, testVars, path, commit>>

\* The call on scope s returned r: its fields and its graph are left as r.c.
ScopeReturns(kind, s, id, r) ==
    /\ scopes' = [scopes EXCEPT ![s].st = StoreOf(r.c)]
    /\ holders' = [holders EXCEPT ![scopes[s].gh].g = r.c.gh]
    /\ slast' = [kind |-> kind, s |-> s, id |-> id, err |-> r.err, new |-> 0,
                 n |-> slast.n + 1]

\* s.Provide(constructor) for a constructor not yet registered with s.
ScopeProvide ==
    /\ path = NoPath
    /\ slast.n < MaxScopeCalls
    /\ \E s \in 1..Len(scopes) :
          \E id \in ScopeCtors \ Range(scopes[s].st.nodes) :
              ScopeReturns("Provide", s, id,
                  ProvideCall(ScopeContainer(scopes, holders, s), id))
    /\ UNCHANGED <<containerVars, testVars, path, commit>>

\* s.Invoke(function)
ScopeInvoke ==
    /\ path = NoPath
    /\ slast.n < MaxScopeCalls
    /\ \E s \in 1..Len(scopes), tid \in ScopeTargets, tfail \in BOOLEAN :
          /\ tfail => ReturnsError(Targets[tid])
          /\ ScopeReturns("Invoke", s, tid,
                 InvokeCall(ScopeContainer(scopes, holders, s), tid,
                            [fail |-> {}, tfail |-> tfail, rnd |-> <<>>]))
    /\ UNCHANGED <<containerVars, testVars, path, commit>>

\* s.GetScopesUntilRoot(), called twice, once the tree is built.
ScopesUntilRoot ==
    /\ path = NoPath
    /\ \E s \in 1..Len(scopes), snapshot \in {"scope.go", "part_002"} :
          path' = [of |-> s, snapshot |-> snapshot,
                   list |-> GetScopesUntilRoot(snapshot, scopes, s),
                   again |-> GetScopesUntilRoot(snapshot, scopes, s)]
    /\ UNCHANGED <<containerVars, testVars, scopes, holders, slast, commit>>

NextScopes == Scope \/ ScopeProvide \/ ScopeInvoke \/ ScopesUntilRoot

SpecScopes == InitScopes /\ [][NextScopes]_vars

(***************************************************************************)
(* constructorNode.Call with its Commit followed one write at a time, and  *)
(* a reader of the store that runs beside it without synchronization.      *)
(***************************************************************************)
\* The constructors registered: none has parameters.
CommitCtors == <<"NewPair", "NewMulti", "NewG7">>

RECURSIVE Provided(_, _, _)
\* The container after Provide of the constructors ids, from the i-th on.
Provided(c, ids, i) ==
    IF i > Len(ids) THEN c ELSE Provided(ProvideCall(c, ids[i]).c, ids, i + 1)

\* New()
NewContainer ==
    EmptyStore(FALSE) @@ [gh |-> NewGraphHolder, ran |-> <<>>, failed |-> {},
                          before |-> [values |-> EmptyMap, groups |-> EmptyMap]]

\* Nothing was read.
NoSeen == [m |-> "", during |-> FALSE, called |-> FALSE, present |-> {}]

\* No group is being committed.
NoKey == Key("", "", "")

\* The map m without the key k.
Without(m, k) == [x \in (DOMAIN m) \ {k} |-> m[x]]

\* New(), then Provide of the constructors, while this container is left
\* alone.
InitCommit ==
    /\ providers = EmptyMap /\ nodes = <<>> /\ values = EmptyMap /\ groups = EmptyMap
    /\ isVerifiedAcyclic = FALSE /\ deferAcyclicVerification = FALSE /\ dry = FALSE
    /\ gh = NewGraphHolder
    /\ called = [n \in CtorIds |-> FALSE]
    /\ execs = [n \in CtorIds |-> 0]
    /\ succs = [n \in CtorIds |-> 0]
    /\ passed = [n \in CtorIds |-> <<>>]
    /\ last = [kind |-> "New", id |-> "", err |-> "nil", ran |-> <<>>, failed |-> {},
               targetRan |-> FALSE, args |-> <<>>, returned |-> <<>>, missing |-> <<>>,
               checked |-> FALSE, checks |-> 0]
    /\ program = CHOOSE pr \in Programs : TRUE
    /\ nProvides = 0 /\ nInvokes = 0
    /\ testEdges = EmptyMap /\ verdict = NoVerdict
    /\ scopes = <<>> /\ holders = <<>> /\ path = NoPath /\ slast = NoScopeCall
    /\ commit = [pc |-> "idle", n |-> "", sr |-> newStagingContainerWriter, cur |-> NoKey,
                 c |-> Provided(NewContainer, CommitCtors, 1), calls |-> 0, seen |-> NoSeen]

\* A Call that writes what was extracted to the store although the
\* function failed.
callStagedWriting(c, n, ex) ==
    IF ex.err # "nil"
    THEN [pc |-> "idle", c |-> Commit(ex.sr, callFailed(c, n).c), sr |-> newStagingContainerWriter]
    ELSE [pc |-> "commit", c |-> c, sr |-> ex.sr]

\* constructorNode.Call once ExtractList has returned ex: it returns the
\* error, or goes on to Commit the staged results.
callStaged(c, n, ex) ==
    IF ex.err # "nil"
    THEN [pc |-> "idle", c |-> callFailed(c, n).c, sr |-> newStagingContainerWriter]
    ELSE [pc |-> "commit", c |-> c, sr |-> ex.sr]

\* constructorNode.Call of n up to the call of Commit, the function of n
\* having run in container c.
callRan(c, n, env) ==
    callStaged(c, n, ExtractList(newStagingContainerWriter, n, invoker(c, n, env)))

otherVars ==
    <<providers, nodes, values, groups, isVerifiedAcyclic, deferAcyclicVerification,
      dry, gh, called, execs, succs, passed, last, program, nProvides, nInvokes,
      testEdges, verdict, scopes, holders, path, slast>>

\* n.Call(c) for a node not yet called, up to the call of Commit.
CallStart ==
    /\ commit.pc = "idle"
    /\ commit.calls < MaxCommitCalls
    /\ \E n \in Range(commit.c.nodes), failed \in BOOLEAN :
          /\ ~commit.c.called[n]
          /\ failed => ReturnsError(Ctors[n])
          /\ shallowCheckDependencies(commit.c, ParamsOf(n)) = "nil"
          /\ ParamsOf(n) = <<>>
          /\ commit' = [callRan(invoked(commit.c, n, <<>>), n,
                                [fail |-> IF failed THEN {n} ELSE {}, tfail |-> FALSE,
                                 rnd |-> <<>>])
                        @@ [n |-> n, cur |-> NoKey, calls |-> commit.calls + 1,
                            seen |-> commit.seen]
                        EXCEPT !.c.ran = <<>>, !.c.failed = {}]
    /\ UNCHANGED otherVars

\* One iteration of the first loop of Commit: the keys of a map come in
\* any order.
CommitValue ==
    /\ commit.pc = "commit"
    /\ \E k \in DOMAIN commit.sr.values :
          commit' = [commit EXCEPT !.c = setValue(@, k.name, k.t, commit.sr.values[k]),
                                   !.sr.values = Without(@, k)]
    /\ UNCHANGED otherVars

\* One iteration of the inner loop of the second loop of Commit: the values
\* of one key in order, the keys in any order.
CommitGroupValue ==
    /\ commit.pc = "commit"
    /\ DOMAIN commit.sr.values = {}
    /\ \E k \in DOMAIN commit.sr.groups :
          /\ commit.cur \in {NoKey, k}
          /\ commit' = [commit EXCEPT
                 !.c = submitGroupedValue(@, k.group, k.t, Head(commit.sr.groups[k])),
                 !.sr.groups = IF Len(@[k]) = 1 THEN Without(@, k)
                               ELSE [@ EXCEPT ![k] = Tail(@)],
                 !.cur = IF Len(commit.sr.groups[k]) = 1 THEN NoKey ELSE k]
    /\ UNCHANGED otherVars

\* The end of Call: Commit has returned, the node is marked called.
CallEnd ==
    /\ commit.pc = "commit"
    /\ DOMAIN commit.sr.values = {} /\ DOMAIN commit.sr.groups = {}
    /\ commit' = [commit EXCEPT !.pc = "idle",
                                !.c.called = [@ EXCEPT ![commit.n] = TRUE],
                                !.c.succs = [@ EXCEPT ![commit.n] = @ + 1]]
    /\ UNCHANGED otherVars

\* The results of constructor m, by their position among its returned
\* values, and those of them the store c holds.
Outputs(m) == {i \in 1..Len(Ctors[m].outs) : Ctors[m].outs[i].kind # "error"}

Stored(c) ==
    {c.values[k] : k \in DOMAIN c.values} \cup UNION {Range(c.groups[k]) : k \in DOMAIN c.groups}

Present(c, m) == {i \in Outputs(m) : \E v \in Stored(c) : v[1] = m /\ v[2] = i}

\* Another goroutine reads the store (getValue, getValueGroup) for the
\* results of m.
Read ==
    /\ commit.pc \in {"idle", "commit"}
    /\ \E m \in Range(commit.c.nodes) :
          commit' = [commit EXCEPT !.seen = [m |-> m, during |-> commit.pc = "commit",
                                            called |-> commit.c.called[m],
                                            present |-> Present(commit.c, m)]]
    /\ UNCHANGED otherVars

NextCommit == CallStart \/ CommitValue \/ CommitGroupValue \/ CallEnd \/ Read

SpecCommit == InitCommit /\ [][NextCommit]_vars

\* The nodes the edges of te lead to from the nodes of S.
TestSuccessors(te, S) == UNION {Range(te[u]) : u \in S}

RECURSIVE ReachableFrom(_, _)
\* The nodes reached from the nodes of S along the edges of te, S included.
ReachableFrom(te, S) ==
    IF TestSuccessors(te, S) \subseteq S THEN S
    ELSE ReachableFrom(te, S \cup TestSuccessors(te, S))

\* A directed cycle of te, a self-loop included, is reachable from n.
CycleReachable(te, n) ==
    \E m \in ReachableFrom(te, {n}) : m \in ReachableFrom(te, TestSuccessors(te, {m}))

\* C16: for every graph and start node, VerifyAcyclic reports not-ok and
\* HasCycle reports true exactly when a directed cycle (a self-loop included)
\* is reachable from the start node; a graph without cycles, shared
\* descendants or not, gets no cycle reported.
C16_CycleIffReachable ==
    verdict # NoVerdict =>
        /\ verdict.ok = ~CycleReachable(testEdges, verdict.start)
        /\ verdict.hc = CycleReachable(testEdges, verdict.start)

\* The diamond 0->1, 1->2, 1->3, 2->3 was checked from 0 and has no cycle.
C16_DiamondAccepted ==
    /\ testEdges = (0 :> <<1>>) @@ (1 :> <<2, 3>>) @@ (2 :> <<3>>) @@ (3 :> <<>>)
    /\ verdict.start = 0 /\ verdict.ok /\ ~verdict.hc

\* A self-loop behind the start node was found by both checks.
C16_SelfLoopFound ==
    /\ testEdges = (0 :> <<1>>) @@ (1 :> <<1>>)
    /\ verdict.start = 0 /\ ~verdict.ok /\ verdict.hc

\* q is the chain of scopes from the root down to s: it starts with the
\* root, ends with s, and each scope is followed by one of its children.
IsChainFromRoot(sc, s, q) ==
    /\ Len(q) >= 1
    /\ sc[q[1]].parentScope = 0
    /\ q[Len(q)] = s
    /\ \A i \in 1..(Len(q) - 1) : sc[q[i + 1]].parentScope = q[i]

\* C17: GetScopesUntilRoot(s) returns the chain of scopes from the root to s
\* inclusive, root first and s last (for the root, the list of the root
\* alone), and a second call returns the same list.
C17_PathFromRoot ==
    path # NoPath =>
        /\ IsChainFromRoot(scopes, path.of, path.list)
        /\ path.again = path.list

RECURSIVE ReachesRoot(_, _, _)
\* The parent chain of s ends at the root and meets no scope of seen.
ReachesRoot(sc, s, seen) ==
    IF s \in seen \/ s \notin 1..Len(sc) THEN FALSE
    ELSE IF sc[s].parentScope = 0 THEN s = 1
    ELSE ReachesRoot(sc, sc[s].parentScope, seen \cup {s})

\* How often x occurs in the childScopes of s.
ChildCount(sc, s, x) ==
    Cardinality({i \in 1..Len(sc[s].childScopes) : sc[s].childScopes[i] = x})

\* The scopes of sc form a tree: the scopes of one childScopes list have the
\* owner of the list as parent, and every parent chain ends at the root
\* without meeting a scope twice.
IsScopeTree(sc) ==
    /\ \A p \in 1..Len(sc) : \A i \in 1..Len(sc[p].childScopes) :
          sc[sc[p].childScopes[i]].parentScope = p
    /\ \A t \in 1..Len(sc) : ReachesRoot(sc, t, {})

\* C18: Scope() on s returns a new scope whose parentScope is s and which
\* is appended once to s.childScopes (and to no other list); whatever is
\* called, no scope's parent changes, the scopes of one list of children
\* have the same parent, and every parent chain reaches the root without
\* repeating a scope.
C18_ParentFixed ==
    [][/\ Len(scopes') > Len(scopes) =>
             /\ slast'.kind = "Scope" /\ slast'.new = Len(scopes')
             /\ slast'.new \notin 1..Len(scopes)
             /\ scopes'[slast'.new].parentScope = slast'.s
             /\ scopes'[slast'.s].childScopes =
                    Append(scopes[slast'.s].childScopes, slast'.new)
             /\ \A p \in 1..Len(scopes') :
                    ChildCount(scopes', p, slast'.new) = IF p = slast'.s THEN 1 ELSE 0
       /\ \A t \in 1..Len(scopes) :
             t \in 1..Len(scopes') /\ scopes'[t].parentScope = scopes[t].parentScope
       /\ IsScopeTree(scopes')]_vars

\* The tree of TestScopeTree (s1 and s2 under the root, s3 under s1), after
\* calls on its scopes.
C18_TestScopeTree ==
    /\ Len(scopes) = 4
    /\ scopes[1].childScopes = <<2, 3>> /\ scopes[2].childScopes = <<4>>
    /\ scopes[2].parentScope = 1 /\ scopes[3].parentScope = 1
    /\ scopes[4].parentScope = 2 /\ scopes[4].parentScope # 3
    /\ slast.kind = "Invoke" /\ slast.s = 4 /\ slast.n = 2

\* The addresses of the graph holders of the scopes of sc other than s.
OtherHolders(sc, s) == {sc[t].gh : t \in (1..Len(sc)) \ {s}}

C20_OtherScopesUntouched ==
    [][slast'.n # slast.n =>
          /\ slast'.kind \in {"Provide", "Invoke"}
          /\ Len(scopes') = Len(scopes) /\ Len(holders') = Len(holders)
          /\ \A t \in (1..Len(scopes)) \ {slast'.s} :
                /\ scopes'[t] = scopes[t]
                /\ holders'[scopes[t].gh] = holders[scopes[t].gh]]_vars

\* Provide on a scope with a parent, a sibling and a child registered the
\* constructor with that scope; the parent holds another constructor.
C20_ProvidedInTheMiddle ==
    /\ Len(scopes) = 4
    /\ scopes[2].parentScope = 1 /\ scopes[3].parentScope = 1 /\ scopes[4].parentScope = 2
    /\ slast.kind = "Provide" /\ slast.s = 2 /\ slast.id = "NewB" /\ slast.err = "nil"
    /\ scopes[2].st.nodes = <<"NewB">> /\ Len(holders[scopes[2].gh].g.nodes) = 1
    /\ scopes[1].st.nodes = <<"NewA">> /\ Len(holders[scopes[1].gh].g.nodes) = 1
    /\ scopes[3].st.nodes = <<>> /\ holders[scopes[3].gh].g = NewGraphHolder
    /\ scopes[4].st.nodes = <<>> /\ holders[scopes[4].gh].g = NewGraphHolder

\* C21 as stated: whenever another goroutine reads the store, also beside
\* a Commit in progress, it finds all the results of a constructor or none.
C21_ReaderSeesAllOrNone ==
    (commit.pc # "off" /\ commit.seen # NoSeen) =>
        commit.seen.present \in {{}, Outputs(commit.seen.m)}

\* C21 as amended: a read made while no Commit is in progress (calls
\* serialized by the caller) finds all the results of a constructor that
\* was called with success and none of a constructor that was not, also
\* after the constructor has failed; a read made beside a Commit may find
\* some of them.
C21_SerializedReaderSeesAllOrNone ==
    (commit.pc # "off" /\ commit.seen # NoSeen /\ ~commit.seen.during) =>
        commit.seen.present = IF commit.seen.called THEN Outputs(commit.seen.m) ELSE {}

\* NewPair failed once, was called again and committed; a read after the
\* Call found both results.
C21_BothSeenAfterCommit ==
    /\ commit.pc = "idle"
    /\ commit.c.execs["NewPair"] = 2 /\ commit.c.called["NewPair"]
    /\ commit.seen = [m |-> "NewPair", during |-> FALSE, called |-> TRUE, present |-> {1, 2}]

\* What Invoke returns: nil or one of its errors.
InvokeErrors ==
    {"nil", "errUser", "errNil", "errNotFunc", "errParam", "errMissingDependencies",
     "errCycle", "errArgumentsFailed"}

\* C22: every Invoke terminates with nil or an error: the resolution never
\* recurses beyond the constructors registered (the call stack is never
\* exhausted), because a cyclic graph is refused before the arguments are
\* built.
C22_InvokeTerminates ==
    last.kind = "Invoke" =>
        /\ ~Fatal(last.err)
        /\ last.err \in InvokeErrors
        /\ Len(last.ran) <= Cardinality(Range(nodes))
        /\ (last.err # "errCycle" /\ last.missing = <<>>) => ~CycleAmong(providers)

\* With the verification deferred, NewX and NewY require each other; the
\* Invoke of a function that needs X returned the cycle error and ran
\* nothing.
C22_CycleRefusedBeforeBuilding ==
    /\ deferAcyclicVerification
    /\ {"NewX", "NewY"} \subseteq Range(nodes)
    /\ CycleAmong(providers)
    /\ last.kind = "Invoke" /\ last.id = "UseX" /\ last.err = "errCycle"
    /\ last.ran = <<>> /\ ~last.targetRan

\* C23 as stated: between two additions of providers the Invokes make at
\* most one acyclicity check; the Invoke that follows an accepted Provide
\* makes the check, and an Invoke that follows an Invoke makes none.
C23_OneCheckPerAddition ==
    [][last'.kind = "Invoke" =>
          /\ last'.checks <= 1
          /\ (last.kind = "Provide" /\ last.err = "nil") => last'.checked
          /\ (last.kind = "Invoke" /\ last.checks = 1) => ~last'.checked]_vars

\* The errors Invoke returns before it comes to the acyclicity check.
EarlyErrors == {"errNil", "errNotFunc", "errParam", "errMissingDependencies"}

\* C23 as amended: an Invoke makes the whole-graph check exactly when it
\* comes to it (the target is a function whose direct dependencies all
\* have providers) and the graph is not marked verified; a check that
\* finds no cycle marks it verified, so that every later Invoke with no
\* intervening Provide makes none; a check that finds a cycle marks
\* nothing and is made again by the next Invoke. An accepted Provide
\* leaves the graph marked verified, having checked it itself, unless the
\* verification is deferred; then, and after a Provide refused for a
\* cycle, the graph is not marked verified.
C23_CheckUnlessVerified ==
    [][/\ last'.kind = "Invoke" =>
             /\ last'.checked = (~isVerifiedAcyclic /\ last'.err \notin EarlyErrors)
             /\ isVerifiedAcyclic => isVerifiedAcyclic'
             /\ (last'.checked /\ last'.err # "errCycle") => isVerifiedAcyclic'
             /\ (last'.checked /\ last'.err = "errCycle") => ~isVerifiedAcyclic'
             /\ ~last'.checked => (isVerifiedAcyclic' = isVerifiedAcyclic)
       /\ (last'.kind = "Provide" /\ last'.err = "nil") =>
             (isVerifiedAcyclic' = ~deferAcyclicVerification)
       /\ (last'.kind = "Provide" /\ last'.err = "errCycle") => ~isVerifiedAcyclic']_vars

\* With the verification deferred, an Invoke checked the graph after a
\* Provide and the next Invoke, with no Provide in between, made no check.
C23_SecondInvokeUsesCache ==
    /\ deferAcyclicVerification
    /\ isVerifiedAcyclic
    /\ last.kind = "Invoke" /\ last.err = "nil"
    /\ ~last.checked /\ last.checks = 1
    /\ nInvokes >= 2

\* q is a path of the graph te from a node back to itself.
IsCyclePath(te, q) ==
    /\ Len(q) >= 2
    /\ q[1] = q[Len(q)]
    /\ \A i \in 1..Len(q) : q[i] \in DOMAIN te
    /\ \A i \in 1..(Len(q) - 1) : q[i + 1] \in Range(te[q[i]])

\* C24: whenever VerifyAcyclic reports a cycle, the node list it returns is
\* a path from a node back to itself: its first and last elements are the
\* same node, every consecutive pair is an edge of the graph (so that the
\* node lies on a cycle).
C24_CyclePathIsACycle ==
    (verdict # NoVerdict /\ ~verdict.ok) => IsCyclePath(testEdges, verdict.cycle)

\* The graph te with the nodes of S only.
RestrictedTo(te, S) ==
    [u \in (DOMAIN te) \cap S |-> SelectSeq(te[u], LAMBDA v : v \in S)]

\* The nodes of S hold all the nodes of some cycle of te.
HoldsACycle(te, S) ==
    \E m \in (DOMAIN te) \cap S :
        m \in ReachableFrom(RestrictedTo(te, S), TestSuccessors(RestrictedTo(te, S), {m}))

Pos(q, x) == IF x \in Range(q) THEN CHOOSE i \in 1..Len(q) : q[i] = x /\ \A j \in 1..(i - 1) : q[j] # x
             ELSE 0

\* Constructor m had completed with success when the function of n was
\* started in the call that ran the functions of ran: it had been called
\* before that call (was), or its function ran earlier in the call and it
\* is called after it (now).
CompletedBefore(m, n, ran, was, now) ==
    \/ was[m]
    \/ now[m] /\ Pos(ran, m) > 0 /\ Pos(ran, m) < Pos(ran, n)

RECURSIVE BuiltAfterProviders(_, _, _, _, _, _, _, _)
\* The arguments args the function of n was started with, for the
\* parameters ps: each required single parameter is the value committed
\* for its key, each group parameter holds the values of its group, and
\* their providers had completed before.
BuiltAfterProviders(ps, args, n, ran, was, now, vals, grps) ==
    /\ Len(args) = Len(ps)
    /\ \A i \in 1..Len(ps) :
          IF ps[i].kind = "object"
          THEN BuiltAfterProviders(ps[i].Fields, args[i], n, ran, was, now, vals, grps)
          ELSE IF ps[i].kind = "group"
          THEN /\ \A m \in ProvidersFor(ps[i]) : CompletedBefore(m, n, ran, was, now)
               /\ SameMultiset(args[i], Get(grps, Key(Elem(ps[i].Type), "", ps[i].Group), <<>>))
          ELSE IF ps[i].Optional THEN TRUE
          ELSE /\ ProvidersFor(ps[i]) # {}
               /\ \A m \in ProvidersFor(ps[i]) : CompletedBefore(m, n, ran, was, now)
               /\ Key(ps[i].Type, ps[i].Name, "") \in DOMAIN vals
               /\ args[i] = vals[Key(ps[i].Type, ps[i].Name, "")]
               /\ args[i] \notin {Zero, NoValue}

\* C26: within one Invoke, the function of a constructor is executed only
\* after the provider of each of its required single parameters has
\* completed with success, its value being committed to the store, and
\* after every provider of each of its group parameters has completed with
\* success.
C26_ProvidersCompleteFirst ==
    [][last'.kind = "Invoke" =>
          \A n \in Range(last'.ran) :
              BuiltAfterProviders(ParamsOf(n), passed'[n], n, last'.ran, called, called',
                                  values', groups')]_vars

\* NewS, which takes the group g, was executed after NewG7 and NewG8, the
\* providers of the group, in the same Invoke, and got both values.
C26_GroupBuiltBeforeNewS ==
    /\ last.kind = "Invoke" /\ last.id = "UseS" /\ last.err = "nil"
    /\ last.ran \in {<<"NewG7", "NewG8", "NewS">>, <<"NewG8", "NewG7", "NewS">>}
    /\ Len(passed["NewS"][1][1]) = 2

\* The providers of the group g, in the order in which
\* paramGroupedSlice.Build calls them.
GroupProviders == Get(providers, GroupG, <<>>)

\* Call was made on constructor n in the step: it was a no-op because n was
\* called already, or the function of n was executed.
Attempted(n) == called[n] \/ n \in Range(last'.ran)

\* C27: when a provider of a group fails in an Invoke, all known providers
\* of the group are nevertheless attempted in it.
C27_AllGroupProvidersAttempted ==
    [][(last'.kind = "Invoke" /\ \E f \in last'.failed : f.n \in Range(GroupProviders))
          => \A m \in Range(GroupProviders) : Attempted(m)]_vars

\* C27, amended: the providers of a group are called in the order of their
\* registration until one fails; the failure aborts the Invoke with an
\* error, the function that failed being the last one executed in it, and
\* the providers after the failed one are not attempted unless they had
\* been called before, while those before it have all been called.
C27_GroupStopsAtFirstFailure ==
    [][last'.kind = "Invoke" =>
          \A i \in 1..Len(GroupProviders) :
              (\E f \in last'.failed : f.n = GroupProviders[i]) =>
                  /\ last'.err # "nil" /\ ~last'.targetRan
                  /\ last'.ran[Len(last'.ran)] = GroupProviders[i]
                  /\ \A j \in 1..(i - 1) : called'[GroupProviders[j]]
                  /\ \A j \in (i + 1)..Len(GroupProviders) :
                        /\ GroupProviders[j] \notin Range(last'.ran)
                        /\ called'[GroupProviders[j]] = called[GroupProviders[j]]]_vars

\* NewGErr, the second of the three providers of the group g, failed in an
\* Invoke of UseG: NewG7 before it was called, NewG8 after it was not.
C27_ThirdProviderNotAttempted ==
    /\ GroupProviders = <<"NewG7", "NewGErr", "NewG8">>
    /\ last.kind = "Invoke" /\ last.id = "UseG" /\ last.err # "nil"
    /\ last.ran = <<"NewG7", "NewGErr">>
    /\ called["NewG7"] /\ ~called["NewGErr"] /\ ~called["NewG8"] /\ execs["NewG8"] = 0

\* The parameter of target tid, a parameter object of one optional field.
OptionalParam(tid) == TargetParams(tid)[1].Fields[1]

\* The required parameters of constructor n that have no provider.
DirectMissing(n) ==
    {q \in Range(LeafParams(ParamsOf(n))) :
        q.kind = "single" /\ ~q.Optional /\ ProvidersFor(q) = {}}

\* Constructor n has all it requires, and a provider of one of its
\* parameters, not called yet, lacks a provider for a parameter of its own.
DeeperMissing(n) ==
    /\ DirectMissing(n) = {}
    /\ \E q \in Range(LeafParams(ParamsOf(n))) :
          \E m \in ProvidersFor(q) : ~called[m] /\ DirectMissing(m) # {}

\* C28: an Invoke whose target takes an optional parameter with a provider
\* that was not called yet.  When the provider lacks a provider for one of
\* its own required parameters, the target runs (unless the run is dry) with the zero
\* value and no constructor is executed; when a provider is missing one level deeper, or
\* the function of the provider returns an error, the Invoke fails and the
\* target does not run.
C28_OptionalProviderFailure ==
    [][(/\ last'.kind = "Invoke" /\ last'.id \in {"UseOptB", "UseOptC", "UseOptZ"}
        /\ ProvidersFor(OptionalParam(last'.id)) # {})
          => \A m \in ProvidersFor(OptionalParam(last'.id)) :
                /\ (~called[m] /\ DirectMissing(m) # {})
                      => /\ last'.err = "nil" /\ (dry \/ last'.targetRan)
                         /\ last'.args[1][1] = Zero
                         /\ last'.ran = <<>> /\ called' = called /\ values' = values
                /\ (~called[m] /\ DeeperMissing(m))
                      => last'.err # "nil" /\ ~last'.targetRan
                /\ (\E f \in last'.failed : f.n = m)
                      => last'.err # "nil" /\ ~last'.targetRan]_vars

\* UseOptB ran with the zero value: NewB, the provider of B, is registered
\* and A, which it requires, has no provider.
C28_ZeroForDirectlyMissing ==
    /\ Range(nodes) = {"NewB"}
    /\ last.kind = "Invoke" /\ last.id = "UseOptB" /\ last.err = "nil" /\ last.targetRan
    /\ last.args[1][1] = Zero /\ ~called["NewB"]

\* The constructors of one type each that take a parameter.
Dependents == {"NewB", "NewC", "NewX", "NewY"}

\* The provider of what constructor n takes is registered and takes, in
\* turn, the output of n.
ClosesCycle(n) ==
    \E m \in Requires(n) : \E q \in Range(LeafParams(ParamsOf(m))) :
        q.kind = "single" /\ q.Type = ResultsOf(n)[1].Type

\* C29: Provide accepts a constructor whose parameters have no provider
\* and never returns a missing-dependency error; the missing provider is
\* reported by an Invoke whose target requires the constructor, and by no
\* Invoke that is built without it; a Provide without deferred verification
\* of a constructor that a constructor registered before it depends on
\* finds the cycle this edge closes.
C29_DependenciesBoundLate ==
    [][/\ last'.kind = "Provide" =>
             /\ last'.err # "errMissingDependencies" /\ last'.missing = <<>>
             /\ (/\ last'.id \in Dependents \ Range(nodes)
                 /\ DirectMissing(last'.id) # {})
                   => (last'.err = "nil" /\ nodes' = Append(nodes, last'.id))
             /\ (/\ last'.id \in Dependents \ Range(nodes)
                 /\ ClosesCycle(last'.id) /\ ~deferAcyclicVerification)
                   => (last'.err = "errCycle" /\ nodes' = nodes)
       /\ last'.kind = "Invoke" =>
             /\ (\E p \in Range(LeafParams(TargetParams(last'.id))) :
                    /\ p.kind = "single" /\ ~p.Optional
                    /\ \E m \in ProvidersFor(p) : ~called[m] /\ DirectMissing(m) # {})
                   => (last'.err \notin {"nil", "errUser"} /\ ~last'.targetRan)
             /\ (/\ MissingKeys(last'.id) = {}
                 /\ \A m \in TargetRequires(last'.id) : DirectMissing(m) = {}
                 /\ last'.failed = {} /\ last'.err # "errCycle")
                   => last'.err \in {"nil", "errUser"}]_vars

\* NewX, which takes Y, was registered while Y had no provider; the Provide
\* of NewY, which takes X, then returned the cycle error and left NewX
\* alone in the container.
C29_LaterProviderClosesCycle ==
    /\ nodes = <<"NewX">> /\ ~deferAcyclicVerification
    /\ last.kind = "Provide" /\ last.id = "NewY" /\ last.err = "errCycle"
    /\ nProvides = 2

\* The sequence a is the beginning of the sequence b.
IsPrefix(a, b) == Len(a) <= Len(b) /\ \A i \in 1..Len(a) : b[i] = a[i]

\* The positions of the group parameters among the fields of the parameter
\* object that the targets UseG and UseMG take.
GroupField(tid) == IF tid = "UseG" THEN 1 ELSE 2

\* C30: no call removes or overwrites an entry of a group: the list stored
\* for a group keeps its entries in place and grows at its end only; the
\* slice a target gets for the group holds the stored values, each as often
\* as the list does, and reading it leaves the list as it is: an Invoke
\* in which no constructor completes leaves the groups unchanged.
C30_GroupReadIsPermutation ==
    [][/\ \A k \in DOMAIN groups :
             k \in DOMAIN groups' /\ IsPrefix(groups[k], groups'[k])
       /\ (last'.kind = "Invoke" /\ last'.id \in {"UseG", "UseMG"}
           /\ last'.err \in {"nil", "errUser"}) =>
             /\ SameMultiset(last'.args[1][GroupField(last'.id)],
                             Get(groups', GroupG, <<>>))
             /\ called' = called => groups' = groups]_vars

\* An Invoke of UseG executed NewG7 and NewG8: the group holds their values
\* in that order and the target got them in the other order.
C30_ReadInAnotherOrder ==
    /\ last.kind = "Invoke" /\ last.id = "UseG" /\ last.err = "nil"
    /\ last.ran = <<"NewG7", "NewG8">>
    /\ groups[GroupG] = <<Made("NewG7", 1, 1), Made("NewG8", 1, 1)>>
    /\ last.args[1][1] = <<Made("NewG8", 1, 1), Made("NewG7", 1, 1)>>

\* The key k has a name, a group, or neither.
NameOrGroup(k) == k.name = "" \/ k.group = ""

\* C31: after every call the keys of providers, values and groups have a
\* name, a group or neither; the keys of values have no group and those of
\* groups no name; a Provide whose options hold both a name and a group is
\* rejected and registers nothing.
C31_NameOrGroupNeverBoth ==
    [][/\ \A k \in DOMAIN providers' \cup DOMAIN values' \cup DOMAIN groups' : NameOrGroup(k)
       /\ \A k \in DOMAIN values' : k.group = ""
       /\ \A k \in DOMAIN groups' : k.name = "" /\ k.group # ""
       /\ (/\ last'.kind = "Provide" /\ Ctors[last'.id].kind = "func"
           /\ Ctors[last'.id].opts.Name # "" /\ Ctors[last'.id].opts.Group # "")
             => /\ last'.err = "errOptions"
                /\ providers' = providers /\ nodes' = nodes /\ gh' = gh]_vars

\* BadOpts, provided with the name n and the group g, was rejected after
\* NewA was registered.
C31_NamedGroupRejected ==
    /\ last.kind = "Provide" /\ last.id = "BadOpts" /\ last.err = "errOptions"
    /\ nodes = <<"NewA">> /\ DOMAIN providers = {Key("A", "", "")}

\* C32: every scope made by Scope() has the configuration of its parent:
\* the same invoker, the same deferral of the acyclicity check, and a
\* source of randomness for its group reads.
C32_ChildConfiguredAsParent ==
    \A s \in 2..Len(scopes) :
        /\ scopes[s].st.dry = scopes[scopes[s].parentScope].st.dry
        /\ scopes[s].st.deferAcyclicVerification
              = scopes[scopes[s].parentScope].st.deferAcyclicVerification
        /\ scopes[s].rand

\* The keys of the results of constructor n that are not grouped.
SingleResultKeys(n) ==
    {ResultKey(ResultsOf(n)[i]) : i \in {j \in 1..Len(ResultsOf(n)) :
                                          ResultsOf(n)[j].kind = "single"}}

RECURSIVE NoneInvalid(_, _)
\* None of the arguments args built for the parameters ps is the invalid
\* value that getValue returns for a key without value.
NoneInvalid(ps, args) ==
    /\ Len(args) = Len(ps)
    /\ \A i \in 1..Len(ps) :
          IF ps[i].kind = "object" THEN NoneInvalid(ps[i].Fields, args[i])
          ELSE IF ps[i].kind = "group" THEN NoValue \notin Range(args[i])
          ELSE args[i] # NoValue

\* C33: while a constructor is marked called each of its results that is
\* not grouped has a value in the store; so the read that follows the Calls
\* of the providers of a parameter finds a value: no function is started
\* with the invalid value for an argument.
C33_CalledHasValues ==
    /\ \A n \in CtorIds : called[n] => SingleResultKeys(n) \subseteq DOMAIN values
    /\ \A n \in CtorIds : execs[n] > 0 => NoneInvalid(ParamsOf(n), passed[n])
    /\ (last.kind = "Invoke" /\ last.targetRan) => NoneInvalid(TargetParams(last.id), last.args)

\* NewMulti, which returns M and a value of the group g, is called and M has
\* a value; UseMG ran with it.
C33_MultiCalled ==
    /\ called["NewMulti"] /\ Key("M", "", "") \in DOMAIN values
    /\ last.kind = "Invoke" /\ last.id = "UseMG" /\ last.targetRan
    /\ last.args[1][1] = values[Key("M", "", "")]

\* C34: a key of values keeps its value: no Provide and no Invoke, whether
\* it returns an error or not, removes the key or stores another value
\* under it.
C34_ValueWrittenOnce ==
    [][\A k \in DOMAIN values : k \in DOMAIN values' /\ values'[k] = values[k]]_vars

\* A was stored by one Invoke; a later Invoke of UseB executed NewB, which
\* takes A, and A still has the value of the first execution of NewA.
C34_KeptAcrossInvokes ==
    /\ last.kind = "Invoke" /\ last.id = "UseB" /\ last.err = "nil"
    /\ last.ran = <<"NewB">> /\ nInvokes = 2
    /\ values[Key("A", "", "")] = Made("NewA", 1, 1) /\ execs["NewA"] = 1

\* The group keys that have a provider or a stored list.
GroupKeys == {k \in DOMAIN providers \cup DOMAIN groups : k.group # ""}

\* The results of constructor n that go to the group of key k.
GroupedResults(n, k) ==
    {i \in 1..Len(ResultsOf(n)) :
        ResultsOf(n)[i].kind = "grouped" /\ ResultKey(ResultsOf(n)[i]) = k}

\* The entries of the sequence q that constructor n made.
MadeBy(q, n) == {i \in 1..Len(q) : q[i][1] = n}

\* The sum of f[x] over the finite set S.
RECURSIVE SumOver(_, _)
SumOver(f, S) ==
    IF S = {} THEN 0
    ELSE f[CHOOSE x \in S : TRUE] + SumOver(f, S \ {CHOOSE x \in S : TRUE})

\* C35: in every state the list stored for a group holds the contributions
\* of the providers of the group that are marked called and nothing else,
\* each contribution once: it is as long as these providers have results
\* for the group and, unless the run is dry (each contribution is then the
\* zero value), each of them made as many of its entries as it has such
\* results.
C35_GroupHoldsCalledProviders ==
    \A k \in GroupKeys :
        /\ Len(Get(groups, k, <<>>))
              = SumOver([n \in CtorIds |-> Cardinality(GroupedResults(n, k))],
                        {n \in Range(Get(providers, k, <<>>)) : called[n]})
        /\ dry => \A i \in 1..Len(Get(groups, k, <<>>)) : groups[k][i] = Zero
        /\ ~dry => \A n \in CtorIds :
              Cardinality(MadeBy(Get(groups, k, <<>>), n))
                 = IF n \in Range(Get(providers, k, <<>>)) /\ called[n]
                   THEN Cardinality(GroupedResults(n, k)) ELSE 0

\* NewG7 was called by a first Invoke of UseG; NewGErr, provided after it,
\* failed in a second Invoke: the group holds the value of NewG7 alone.
C35_AfterFailedLateProvider ==
    /\ Get(providers, GroupG, <<>>) = <<"NewG7", "NewGErr">>
    /\ called["NewG7"] /\ ~called["NewGErr"]
    /\ last.kind = "Invoke" /\ last.id = "UseG" /\ last.err # "nil"
    /\ last.ran = <<"NewGErr">> /\ nInvokes = 2
    /\ groups[GroupG] = <<Made("NewG7", 1, 1)>>

\* C36: in every state, after a Provide that registered its constructor,
\* one that was rejected for a cycle or for the shape of the constructor,
\* or an Invoke, isVerifiedAcyclic is set only while the constructors of
\* the providers map do not depend on one another in a cycle.
C36_VerifiedMeansAcyclic == isVerifiedAcyclic => ~CycleAmong(providers)

\* With deferred verification an Invoke verified the graph of NewA; NewX
\* and NewY, which need each other, were provided after it: the cycle is
\* there and the flag is not set.
C36_FlagResetByDeferredProvide ==
    /\ deferAcyclicVerification /\ ~isVerifiedAcyclic
    /\ CycleAmong(providers)
    /\ nodes = <<"NewA", "NewX", "NewY">> /\ called["NewA"] /\ nInvokes = 1

\* C37: an Invoke, whether it returns an error or not and whatever its
\* target takes, leaves the providers map, the nodes list and the node list
\* of the graph as they were.
C37_InvokeRegistersNothing ==
    [][last'.kind = "Invoke" =>
          (providers' = providers /\ nodes' = nodes /\ gh'.nodes = gh.nodes)]_vars

\* C38: a group without provider is not a missing dependency.  An Invoke
\* of UseG, whose parameter is the group g, returns no error and builds the
\* empty slice for it; an Invoke of UseS executes NewS, which takes the
\* group, with the empty slice.
C38_EmptyGroupResolves ==
    [][(last'.kind = "Invoke" /\ GroupProviders = <<>>) =>
          /\ last'.id = "UseG" =>
                /\ last'.err = "nil" /\ last'.missing = <<>>
                /\ last'.args = <<<< <<>> >>>>
                /\ dry \/ last'.targetRan
          /\ (last'.id = "UseS" /\ "NewS" \in Range(nodes) /\ ~called["NewS"]) =>
                /\ last'.err = "nil" /\ last'.missing = <<>>
                /\ called'["NewS"]
                /\ dry \/ (last'.ran = <<"NewS">> /\ passed'["NewS"] = <<<< <<>> >>>>)]_vars

\* NewS alone is registered: UseS ran with the S that NewS made from the
\* empty group.
C38_NewSWithEmptyGroup ==
    /\ nodes = <<"NewS">> /\ GroupProviders = <<>>
    /\ last.kind = "Invoke" /\ last.id = "UseS" /\ last.err = "nil" /\ last.targetRan
    /\ last.ran = <<"NewS">> /\ passed["NewS"] = <<<< <<>> >>>>
    /\ last.args = <<Made("NewS", 1, 1)>>

\* The loop of getCyclePath came to its end for the path q.
Terminated(q) == (0 - 1) \notin Range(q)

====
